---- MODULE Spec2Model ----
(***************************************************************************)
(* A model of the multi-instance local dispatch fabric of ClankerContext:  *)
(* the per-instance HTTP surface (vscode-extension/src/server/HttpServer), *)
(* the shared instance registry with its lock sentinel                     *)
(* (vscode-extension/src/registry/InstanceRegistry), the host lifecycle    *)
(* (vscode-extension/src/extension) and the browser-side discovery client  *)
(* (src/background/VSCodeClient).                                          *)
(***************************************************************************)
EXTENDS Integers, Sequences, FiniteSets, TLC

VARIABLES
    \* ---- HTTP surface: one request in flight on one HttpServer ----
    hSelf,       \* registry.getId() of the registry the server was built with
    hPc,         \* "idle" | "parseBody" | "sendToCopilot" | "responded"
    hReq,        \* the request line and Origin header being handled
    hSize,       \* parseBody's size accumulator
    hChunks,     \* number of 'data' events seen
    hDoc,        \* the body text received at 'end' ("none" before that)
    hRes,        \* what the handler wrote with writeHead/end
    hDestroyed,  \* req.destroy() was called
    hSent,       \* contents handed to copilotIntegration.sendToCopilot
    hSnapshots   \* calls of registry.getAllInstances() made for the request

httpVars == <<hSelf, hPc, hReq, hSize, hChunks, hDoc, hRes, hDestroyed, hSent, hSnapshots>>

VARIABLES
    \* ---- Discovery client: one discoverInstances call and its loopback world ----
    dWorld,      \* what listens on each loopback port: "free", "hang" or an instance id
    dRegistry,   \* the record list the instances serve on GET /instances
    dPc,         \* "idle" | "getInstances" | "scan" | "getScanned" | "verify" | "done"
    dFailed,     \* GET /instances on the configured endpoint failed
    dAvailable,  \* findAvailableServer's result (0: null)
    dRegistered, \* registeredInstances
    dPending,    \* indices of registeredInstances whose probe has not settled
    dProbes,     \* the /health answer each settled probe got
    dVerified    \* verifiedInstances

discVars == <<dWorld, dRegistry, dPc, dFailed, dAvailable, dRegistered, dPending,
              dProbes, dVerified>>

VARIABLES
    \* ---- Registry fabric: the shared files and the host processes ----
    now,         \* the wall clock, ms (Date.now(), file mtimes)
    lock,        \* the lock sentinel: the frame that created it and its mtime
    regFile,     \* the registry file: whether it exists, its record list
    fHost,       \* the host process each startServer invocation runs in
    busy,        \* loopback ports held by processes outside the fabric
    gServer,     \* extension.ts `server` of each host ("null" or an invocation)
    gRegistry,   \* extension.ts `registry` of each host ("null" or an invocation)
    srv,         \* each HttpServer: "none" | "listening" | "closing" | "closed", port
    regPort,     \* InstanceRegistry.port of each registry object
    hbTimer,     \* InstanceRegistry.heartbeatTimer of each registry object: set?, next due
    pc,          \* where each call frame stands
    tgt,         \* the registry object (or server, while closing) a frame works on
    buf,         \* the record list a frame computed and is about to write
    crashed,     \* the host process has died
    fFailed,     \* history: a modifyRegistry call of the registry object threw
    unregOk      \* history: unregister's modifyRegistry call returned normally

fabVars == <<now, lock, regFile, fHost, busy, gServer, gRegistry, srv, regPort,
             hbTimer, pc, tgt, buf, crashed, fFailed, unregOk>>

VARIABLES
    \* ---- Browser side: the stored connection and sends to a VS Code instance ----
    sConn,       \* the stored connection's selectedInstanceId / selectedInstancePort
    sQueue,      \* SEND_TO_VSCODE messages the popup has sent, not yet handled
    sRouter,     \* the router's SEND_TO_VSCODE case: "idle", or what it holds while exporting
    sPosts       \* the POSTs made by vsCodeClient.sendMessage, oldest first

sendVars == <<sConn, sQueue, sRouter, sPosts>>

VARIABLES
    \* ---- HttpServer.start: one run of the port search ----
    tPreferred,  \* the port the server was constructed with
    tInUse,      \* the loopback ports other listeners hold
    tPort,       \* tryPort's parameter `port` of the call to come
    tAttempts,   \* tryPort's parameter `maxAttempts` of the call to come
    tTried,      \* the ports listen() was called with, in order
    tServer,     \* this.server: "null", "created" or "listening"; this.port
    tPromise     \* the promise start() returned: "none", "pending", "resolved", "rejected"

portVars == <<tPreferred, tInUse, tPort, tAttempts, tTried, tServer, tPromise>>

\* The registry file under snapshots and modifications, one system call at a
\* time: the clock, the lock sentinel's owner, the file, and for each registry
\* object its position, its operation, the list it is about to write, the list
\* it read, whether the descriptor it opened still is the registry file,
\* whether its heartbeat timer runs, what its last snapshot returned, the
\* last two writes to the file, whether the process's temporary file exists,
\* how its last modifyRegistry ended, and how many file calls have failed.
VARIABLES rNow, rLock, rFile, rPc, rOp, rBuf, rSeen, rFd, rReg, rOut, rLog,
          rTmp, rErr, rFaults
regVars == <<rNow, rLock, rFile, rPc, rOp, rBuf, rSeen, rFd, rReg, rOut, rLog,
             rTmp, rErr, rFaults>>

VARIABLES
    \* ---- SessionStateMachine and the sessions store ----
    currentState,   \* 'idle' | 'monitoring' | 'selecting_element'
    currentSession, \* the MonitoringSession, or NoSession for null
    sessions,       \* the SESSIONS object store, by sessionId
    smCreated,      \* the number of sessions created so far
    smLast          \* the method called last and whether it threw at its checks

smVars == <<currentState, currentSession, sessions, smCreated, smLast>>

vars == <<httpVars, discVars, fabVars, sendVars, portVars, regVars, smVars>>

\* What an action of one part leaves alone: the state of the other parts.
HttpOnly == UNCHANGED <<discVars, fabVars, sendVars, portVars, regVars, smVars>>
DiscOnly == UNCHANGED <<httpVars, fabVars, sendVars, portVars, regVars, smVars>>
FabOnly == UNCHANGED <<httpVars, discVars, sendVars, portVars, regVars, smVars>>
SendOnly == UNCHANGED <<httpVars, discVars, fabVars, portVars, regVars, smVars>>
PortOnly == UNCHANGED <<httpVars, discVars, fabVars, sendVars, regVars, smVars>>
RegOnly == UNCHANGED <<httpVars, discVars, fabVars, sendVars, portVars, smVars>>
SmOnly == UNCHANGED <<httpVars, discVars, fabVars, sendVars, portVars, regVars>>

\* Instance ids (InstanceRegistry.generateInstanceId: pid + random hex).
Inst == {"i1", "i2", "i3"}

(***************************************************************************)
(* HTTP surface                                                            *)
(***************************************************************************)

MAX_BODY_SIZE == 1024 * 1024

\* Bound: number of 'data' events delivered for one request body.
MaxChunks == 2

\* Header values are sequences of characters, so that startsWith is computed.
ChromeExtensionPrefix ==
    <<"c","h","r","o","m","e","-","e","x","t","e","n","s","i","o","n",":","/","/">>
MozExtensionPrefix ==
    <<"m","o","z","-","e","x","t","e","n","s","i","o","n",":","/","/">>
ALLOWED_ORIGIN_PREFIXES == {ChromeExtensionPrefix, MozExtensionPrefix}

NullLiteral == <<"n","u","l","l">>

\* headers.origin: undefined when the header is absent, else its value.
Undefined == [present |-> FALSE, value |-> <<>>]
Header(v) == [present |-> TRUE, value |-> v]

startsWith(s, prefix) ==
    /\ Len(s) >= Len(prefix)
    /\ SubSeq(s, 1, Len(prefix)) = prefix

\* A mutant of isAllowedOrigin: every origin is let in.
isAllowedOriginAnyone(origin) == TRUE

isAllowedOrigin(origin) ==
    \/ ~origin.present                  \* !origin : undefined
    \/ origin.value = <<>>              \* !origin : the empty string
    \/ origin.value = NullLiteral
    \/ \E prefix \in ALLOWED_ORIGIN_PREFIXES : startsWith(origin.value, prefix)

\* The Origin headers requests are drawn from.
Origins ==
    { Undefined,
      Header(<<>>),
      Header(NullLiteral),
      Header(NullLiteral \o <<"x">>),
      Header(ChromeExtensionPrefix \o <<"a","b">>),
      Header(MozExtensionPrefix \o <<"a">>),
      Header(SubSeq(ChromeExtensionPrefix, 1, Len(ChromeExtensionPrefix) - 1)),
      Header(<<"C">> \o Tail(ChromeExtensionPrefix)),
      Header(<<"h","t","t","p","s",":","/","/","e","v","i","l">>),
      Header(<<"h","t","t","p",":","/","/","l","o","c","a","l","h","o","s","t">>) }

Methods == {"GET", "POST", "OPTIONS", "PUT"}

\* pathname, split at "/".
Paths ==
    { <<"health">>, <<"instances">>, <<"other">>, <<"instance", "i1">> }
    \cup { <<"instance", id, "send">> : id \in Inst }
    \cup { <<"instance", id, "send", "x">> : id \in {"i1"} }

\* pathname.match(/^\/instance\/([^/]+)\/send$/)
sendMatch(path) ==
    /\ Len(path) = 3
    /\ path[1] = "instance"
    /\ path[3] = "send"

\* Body texts and what JSON.parse makes of them.
Docs ==
    { "", "{", "null", "42", "\"hi\"", "[]", "{}",
      "{\"content\":\"\"}", "{\"content\":5}", "{\"content\":null}",
      "{\"content\":\"hi\"}", "{\"content\":\"hello\",\"x\":1}" }

NoContent == [t |-> "undefined", s |-> ""]

JSONParse(text) ==
    CASE text = "null" -> [ok |-> TRUE, t |-> "null",   content |-> NoContent]
      [] text = "42"   -> [ok |-> TRUE, t |-> "number", content |-> NoContent]
      [] text = "\"hi\"" -> [ok |-> TRUE, t |-> "string", content |-> NoContent]
      [] text = "[]"   -> [ok |-> TRUE, t |-> "array",  content |-> NoContent]
      [] text = "{}"   -> [ok |-> TRUE, t |-> "object", content |-> NoContent]
      [] text = "{\"content\":\"\"}" ->
            [ok |-> TRUE, t |-> "object", content |-> [t |-> "string", s |-> ""]]
      [] text = "{\"content\":5}" ->
            [ok |-> TRUE, t |-> "object", content |-> [t |-> "number", s |-> "5"]]
      [] text = "{\"content\":null}" ->
            [ok |-> TRUE, t |-> "object", content |-> [t |-> "null", s |-> ""]]
      [] text = "{\"content\":\"hi\"}" ->
            [ok |-> TRUE, t |-> "object", content |-> [t |-> "string", s |-> "hi"]]
      [] text = "{\"content\":\"hello\",\"x\":1}" ->
            [ok |-> TRUE, t |-> "object", content |-> [t |-> "string", s |-> "hello"]]
      [] OTHER -> [ok |-> FALSE, t |-> "error", content |-> NoContent]

\* parseBody's 'end' handler: resolve(body ? JSON.parse(body) : {})
parseBodyEnd(text) ==
    IF text = "" THEN JSONParse("{}") ELSE JSONParse(text)

\* A mutant of bodyTooLarge: the cap itself is already refused.
bodyTooLargeAtCap(size) == size >= MAX_BODY_SIZE

\* parseBody's 'data' handler: if (size > MAX_BODY_SIZE)
bodyTooLarge(size) == size > MAX_BODY_SIZE

\* Sizes of the chunks a body arrives in.
ChunkSizes == {1, MAX_BODY_SIZE - 1, MAX_BODY_SIZE, MAX_BODY_SIZE + 1}

\* !body.content, for the content values JSONParse yields
falsy(c) == c.t \in {"undefined", "null"} \/ (c.t = "string" /\ c.s = "")

NoRes == [status |-> 0, error |-> "", cors |-> FALSE, allowOrigin |-> Undefined]

\* sendJson(res, statusCode, data, origin)
sendJson(statusCode, error, origin) ==
    [status |-> statusCode, error |-> error, cors |-> TRUE,
     allowOrigin |-> IF origin.present /\ origin.value # <<>> THEN origin ELSE Undefined]

\* handleCors(res, origin)
handleCors(origin) ==
    [status |-> 204, error |-> "", cors |-> TRUE,
     allowOrigin |-> IF origin.present /\ origin.value # <<>> THEN origin ELSE Undefined]

\* handleRequest's answer to a forbidden origin: writeHead(403, Content-Type only)
forbidden ==
    [status |-> 403, error |-> "Forbidden: invalid origin", cors |-> FALSE,
     allowOrigin |-> Undefined]

HttpInit ==
    /\ hSelf \in {"i1", "i2"}
    /\ hPc = "idle"
    /\ hReq = [origin |-> Undefined, method |-> "GET", path |-> <<"health">>]
    /\ hSize = 0
    /\ hChunks = 0
    /\ hDoc = "none"
    /\ hRes = NoRes
    /\ hDestroyed = FALSE
    /\ hSent = <<>>
    /\ hSnapshots = 0

\* handleRequest, from the 'request' event up to its first await (parseBody)
\* or up to its response.
handleRequest(origin, method, path) ==
    /\ hPc = "idle"
    /\ hReq' = [origin |-> origin, method |-> method, path |-> path]
    /\ hSize' = 0
    /\ hChunks' = 0
    /\ hDoc' = "none"
    /\ hDestroyed' = FALSE
    /\ hSent' = <<>>
    /\ UNCHANGED hSelf
    /\ IF ~isAllowedOrigin(origin)
       THEN /\ hRes' = forbidden
            /\ hPc' = "responded"
            /\ hSnapshots' = 0
       ELSE IF method = "OPTIONS"
       THEN /\ hRes' = handleCors(origin)
            /\ hPc' = "responded"
            /\ hSnapshots' = 0
       ELSE IF method = "GET" /\ path = <<"health">>
       THEN /\ hRes' = sendJson(200, "", origin)          \* handleHealth
            /\ hPc' = "responded"
            /\ hSnapshots' = 0
       ELSE IF method = "GET" /\ path = <<"instances">>
       THEN /\ hRes' = sendJson(200, "", origin)          \* handleGetInstances
            /\ hPc' = "responded"
            /\ hSnapshots' = 1
       ELSE IF method = "POST" /\ sendMatch(path)
       THEN /\ hRes' = NoRes                              \* await parseBody(req)
            /\ hPc' = "parseBody"
            /\ hSnapshots' = 0
       ELSE /\ hRes' = sendJson(404, "Not found", origin)
            /\ hPc' = "responded"
            /\ hSnapshots' = 0
    /\ HttpOnly

\* parseBody's req.on('data'): one chunk of `len` bytes arrives.
parseBodyData(len) ==
    /\ hPc = "parseBody"
    /\ hChunks < MaxChunks
    /\ hChunks' = hChunks + 1
    /\ hSize' = hSize + len
    /\ IF bodyTooLarge(hSize + len)
       THEN \* reject(...); req.destroy(); handleRequest's catch answers 500
            /\ hDestroyed' = TRUE
            /\ hRes' = sendJson(500, "Request body too large", hReq.origin)
            /\ hPc' = "responded"
       ELSE UNCHANGED <<hDestroyed, hRes, hPc>>
    /\ UNCHANGED <<hSelf, hReq, hDoc, hSent, hSnapshots>>
    /\ HttpOnly

\* handleSend(res, instanceId, body, origin) up to its await of sendToCopilot;
\* a TypeError thrown by body.content is caught by handleRequest's catch.
handleSend(instanceId, body, copilotAvailable) ==
    IF instanceId # hSelf
    THEN /\ hRes' = sendJson(404, "Instance not found on this server", hReq.origin)
         /\ hPc' = "responded"
         /\ UNCHANGED hSent
    ELSE IF body.t = "null"
    THEN /\ hRes' = sendJson(500, "TypeError", hReq.origin)
         /\ hPc' = "responded"
         /\ UNCHANGED hSent
    ELSE IF falsy(body.content) \/ body.content.t # "string"
    THEN /\ hRes' = sendJson(400, "Missing or invalid content", hReq.origin)
         /\ hPc' = "responded"
         /\ UNCHANGED hSent
    ELSE IF ~copilotAvailable
    THEN /\ hRes' = sendJson(503, "GitHub Copilot Chat is not installed", hReq.origin)
         /\ hPc' = "responded"
         /\ UNCHANGED hSent
    ELSE /\ hSent' = Append(hSent, body.content.s)
         /\ hPc' = "sendToCopilot"
         /\ UNCHANGED hRes

\* parseBody's req.on('end') with the body text `text`, then the rest of the
\* send route of handleRequest.
parseBodyEnd_handleSend(text, copilotAvailable) ==
    /\ hPc = "parseBody"
    /\ (text = "") <=> (hSize = 0)
    /\ hDoc' = text
    /\ LET body == parseBodyEnd(text) IN
       IF ~body.ok
       THEN /\ hRes' = sendJson(500, "Invalid JSON", hReq.origin)
            /\ hPc' = "responded"
            /\ UNCHANGED hSent
       ELSE handleSend(hReq.path[2], body, copilotAvailable)
    /\ UNCHANGED <<hSelf, hReq, hSize, hChunks, hDestroyed, hSnapshots>>
    /\ HttpOnly

\* parseBody's req.on('error', reject): the request stream fails.
parseBodyError ==
    /\ hPc = "parseBody"
    /\ hRes' = sendJson(500, "aborted", hReq.origin)
    /\ hPc' = "responded"
    /\ UNCHANGED <<hSelf, hReq, hSize, hChunks, hDoc, hDestroyed, hSent, hSnapshots>>
    /\ HttpOnly

\* handleSend after await copilotIntegration.sendToCopilot(body.content)
handleSendDone(delivered) ==
    /\ hPc = "sendToCopilot"
    /\ hRes' = IF delivered THEN sendJson(200, "", hReq.origin)
               ELSE sendJson(500, "send failed", hReq.origin)
    /\ hPc' = "responded"
    /\ UNCHANGED <<hSelf, hReq, hSize, hChunks, hDoc, hDestroyed, hSent, hSnapshots>>
    /\ HttpOnly

\* The response is out; the server waits for the next request.
nextRequest ==
    /\ hPc = "responded"
    /\ hPc' = "idle"
    /\ hReq' = [origin |-> Undefined, method |-> "GET", path |-> <<"health">>]
    /\ hSize' = 0
    /\ hChunks' = 0
    /\ hDoc' = "none"
    /\ hRes' = NoRes
    /\ hDestroyed' = FALSE
    /\ hSent' = <<>>
    /\ hSnapshots' = 0
    /\ UNCHANGED hSelf
    /\ HttpOnly

HttpNext ==
    \/ \E o \in Origins, m \in Methods, p \in Paths : handleRequest(o, m, p)
    \/ \E len \in ChunkSizes : parseBodyData(len)
    \/ \E text \in Docs, avail \in BOOLEAN : parseBodyEnd_handleSend(text, avail)
    \/ parseBodyError
    \/ \E delivered \in BOOLEAN : handleSendDone(delivered)
    \/ nextRequest

(***************************************************************************)
(* Discovery client (VSCodeClient) and the loopback ports it talks to      *)
(***************************************************************************)

PORT_RANGE_START == 41970
PORT_RANGE_END == 41979

\* The extension's default preferred port and HttpServer's attempt budget.
DEFAULT_PORT == 41970
MAX_PORT_ATTEMPTS == 100

\* The connection's default endpoint, http://localhost:41970.
DEFAULT_ENDPOINT_PORT == 41970

\* Bound: records in the instance list served on GET /instances.
MaxRecords == 2

\* The ports HttpServer.start may bind: preferred .. preferred + 99.
ReservedRange == DEFAULT_PORT .. (DEFAULT_PORT + MAX_PORT_ATTEMPTS - 1)

\* The ports the model puts listeners and records on.
CandidatePorts ==
    { PORT_RANGE_START, PORT_RANGE_END, PORT_RANGE_END + 1,
      DEFAULT_PORT + MAX_PORT_ATTEMPTS - 1 }

\* The ids discovery sees: two instances that may run, one that is gone.
DiscInst == {"i1", "i2"}

Listener(world, port) == IF port \in DOMAIN world THEN world[port] ELSE "free"

\* What fetch(`http://localhost:${port}/health`) gives within the timeout:
\* a refused connection and an expired timeout both throw.
fetchHealth(world, port) ==
    LET l == Listener(world, port) IN
    IF l \in Inst
    THEN [ok |-> TRUE, healthy |-> TRUE, instanceId |-> l]
    ELSE [ok |-> FALSE, healthy |-> FALSE, instanceId |-> ""]

\* A mutant of verified: the id the endpoint reports is not compared.
verifiedAnyId(health, instance) == health.ok /\ health.healthy

\* discoverInstances' acceptance of a probed record:
\* the probe did not throw, health.healthy && health.instanceId === instance.id
verified(health, instance) ==
    health.ok /\ health.healthy /\ health.instanceId = instance.id

\* findAvailableServer: the first port of PORT_RANGE_START..PORT_RANGE_END whose
\* /health answered within 500 ms, or null (0).
findAvailableServer(world) ==
    LET responding == { port \in PORT_RANGE_START .. PORT_RANGE_END :
                          fetchHealth(world, port).ok }
    IN IF responding = {} THEN 0
       ELSE CHOOSE port \in responding : \A q \in responding : port <= q

\* The loopback worlds: each instance listens on at most one port, at most one
\* port is held by a process that accepts and never answers.
Worlds ==
    { w \in [CandidatePorts -> {"free", "hang"} \cup DiscInst] :
        /\ \A p, q \in CandidatePorts : (p # q /\ w[p] \in DiscInst) => w[p] # w[q]
        /\ Cardinality({ p \in CandidatePorts : w[p] = "hang" }) <= 1 }

RecordsOf == [id : Inst, port : CandidatePorts]

\* Record lists with pairwise distinct ids, of at most MaxRecords records.
RECURSIVE RecordLists(_)
RecordLists(n) ==
    IF n = 0 THEN { <<>> }
    ELSE LET shorter == RecordLists(n - 1) IN
         shorter \cup
         { Append(l, r) : l \in { x \in shorter : Len(x) = n - 1 },
                          r \in RecordsOf }

DistinctIds(l) == \A a, b \in 1 .. Len(l) : a # b => l[a].id # l[b].id

DiscInit ==
    /\ dWorld \in Worlds
    /\ dRegistry \in { l \in RecordLists(MaxRecords) : DistinctIds(l) }
    /\ dPc = "idle"
    /\ dFailed = FALSE
    /\ dAvailable = 0
    /\ dRegistered = <<>>
    /\ dPending = {}
    /\ dProbes = <<>>
    /\ dVerified = <<>>

\* discoverInstances(endpoint): the call, up to the first await.
discoverInstances ==
    /\ dPc = "idle"
    /\ dPc' = "getInstances"
    /\ dFailed' = FALSE
    /\ dAvailable' = 0
    /\ dRegistered' = <<>>
    /\ dPending' = {}
    /\ dProbes' = <<>>
    /\ dVerified' = <<>>
    /\ UNCHANGED <<dWorld, dRegistry>>
    /\ DiscOnly

\* registeredInstances is set; the probes of its records start, or the call
\* returns [] when it is empty.
startVerify(instances) ==
    /\ dRegistered' = instances
    /\ dPending' = 1 .. Len(instances)
    /\ dProbes' = [k \in 1 .. Len(instances) |-> [ok |-> FALSE, healthy |-> FALSE, instanceId |-> ""]]
    /\ dPc' = IF Len(instances) = 0 THEN "done" ELSE "verify"

\* await this.getInstances(endpoint) settles: a listening instance answers with
\* its registry snapshot; a refused connection throws. (A port that accepts and
\* never answers settles nothing: getInstances sets no timeout.)
getInstances ==
    /\ dPc = "getInstances"
    /\ Listener(dWorld, DEFAULT_ENDPOINT_PORT) # "hang"
    /\ IF Listener(dWorld, DEFAULT_ENDPOINT_PORT) \in Inst
       THEN /\ startVerify(dRegistry)
            /\ UNCHANGED dFailed
       ELSE /\ dFailed' = TRUE
            /\ dPc' = "scan"
            /\ UNCHANGED <<dRegistered, dPending, dProbes>>
    /\ UNCHANGED <<dWorld, dRegistry, dAvailable, dVerified>>
    /\ DiscOnly

\* await this.findAvailableServer() settles.
scanPorts ==
    /\ dPc = "scan"
    /\ dAvailable' = findAvailableServer(dWorld)
    /\ IF findAvailableServer(dWorld) # 0
       THEN /\ dPc' = "getScanned"
            /\ UNCHANGED <<dRegistered, dPending, dProbes>>
       ELSE startVerify(<<>>)
    /\ UNCHANGED <<dWorld, dRegistry, dFailed, dVerified>>
    /\ DiscOnly

\* await this.getInstances(availableEndpoint) settles.
getInstancesScanned ==
    /\ dPc = "getScanned"
    /\ Listener(dWorld, dAvailable) # "hang"
    /\ IF Listener(dWorld, dAvailable) \in Inst
       THEN startVerify(dRegistry)
       ELSE startVerify(<<>>)
    /\ UNCHANGED <<dWorld, dRegistry, dFailed, dAvailable, dVerified>>
    /\ DiscOnly

\* One of the parallel probes settles: checkHealthWithTimeout on the record's
\* own port (2 s), then the acceptance test.
verifyInstance(k) ==
    /\ dPc = "verify"
    /\ k \in dPending
    /\ LET health == fetchHealth(dWorld, dRegistered[k].port) IN
       /\ dProbes' = [dProbes EXCEPT ![k] = health]
       /\ dVerified' = IF verified(health, dRegistered[k])
                       THEN Append(dVerified, dRegistered[k])
                       ELSE dVerified
    /\ dPending' = dPending \ {k}
    /\ UNCHANGED <<dWorld, dRegistry, dPc, dFailed, dAvailable, dRegistered>>
    /\ DiscOnly

\* await Promise.all(...) settles; return verifiedInstances.
returnVerified ==
    /\ dPc = "verify"
    /\ dPending = {}
    /\ dPc' = "done"
    /\ UNCHANGED <<dWorld, dRegistry, dFailed, dAvailable, dRegistered, dPending,
                   dProbes, dVerified>>
    /\ DiscOnly

\* The process of a listening instance exits: its port is free again.
instanceExits(port) ==
    /\ dWorld[port] \in Inst
    /\ dPc \notin {"idle", "done"}
    /\ dWorld' = [dWorld EXCEPT ![port] = "free"]
    /\ UNCHANGED <<dRegistry, dPc, dFailed, dAvailable, dRegistered, dPending,
                   dProbes, dVerified>>
    /\ DiscOnly

DiscNext ==
    \/ discoverInstances
    \/ getInstances
    \/ scanPorts
    \/ getInstancesScanned
    \/ \E k \in 1 .. MaxRecords + 1 : verifyInstance(k)
    \/ returnVerified
    \/ \E port \in CandidatePorts : instanceExits(port)

(***************************************************************************)
(* Instance registry (InstanceRegistry), its lock sentinel, and the host   *)
(* lifecycle (extension.ts startServer / stopServer)                       *)
(***************************************************************************)

HEARTBEAT_INTERVAL == 10000
STALE_THRESHOLD == 20000
LOCK_STALE_MS == 10000
LOCK_RETRY_DELAY == 50
LOCK_MAX_RETRIES == 100

\* Bound: the clock runs over MaxBeats heartbeat intervals.
MaxBeats == 2

\* The instants Date.now() is sampled at: the multiples of the heartbeat
\* interval. A sentinel is then LOCK_STALE_MS old (not stale) after one
\* interval and stale after two; a record is STALE_THRESHOLD old after two.
TimePoints == { b * HEARTBEAT_INTERVAL : b \in 0 .. MaxBeats }

\* The startServer invocations; invocation k builds the InstanceRegistry with
\* id k and the HttpServer that reports it.
FabInst == {"i1", "i2"}
Hosts == {"h1", "h2"}

\* The hosts whose user runs the stop command (or whose window is closed in
\* an orderly way); the others run until they die.
StopHosts == {"h1"}

\* The asynchronous call frames: a startServer invocation (which runs register),
\* the heartbeat callback of a registry object, a host's stopServer (which runs
\* unregister).
StartFrame(k) == <<"start", k>>
BeatFrame(k) == <<"beat", k>>
StopFrame(h) == <<"stop", h>>
Frames ==
    { StartFrame(k) : k \in FabInst } \cup { BeatFrame(k) : k \in FabInst }
    \cup { StopFrame(h) : h \in StopHosts }

NoLock == [by |-> <<"none", "none">>, mtime |-> 0]

\* Positions of a frame inside a synchronous run: no other callback of the
\* same process runs until the frame reaches an await that needs a timer or
\* an I/O event.
MidSync == {"stat", "unlink", "create", "read", "write", "release", "releaseErr"}

\* No interval timer / an interval timer armed at `time`.
NoTimer == [set |-> FALSE, due |-> 0]
setInterval(time) == [set |-> TRUE, due |-> time + HEARTBEAT_INTERVAL]

\* The registry record of registry object `self`.
instanceInfo(self, port, pid, time) ==
    [id |-> self, port |-> port, pid |-> pid, lastHeartbeat |-> time]

RECURSIVE filterOut(_, _)
\* instances.filter(i => i.id !== id)
filterOut(instances, id) ==
    IF instances = <<>> THEN <<>>
    ELSE IF Head(instances).id # id
         THEN <<Head(instances)>> \o filterOut(Tail(instances), id)
         ELSE filterOut(Tail(instances), id)

RECURSIVE cleanStaleInstances(_, _)
\* instances.filter(instance => now - instance.lastHeartbeat < STALE_THRESHOLD)
cleanStaleInstances(instances, time) ==
    IF instances = <<>> THEN <<>>
    ELSE IF time - Head(instances).lastHeartbeat < STALE_THRESHOLD
         THEN <<Head(instances)>> \o cleanStaleInstances(Tail(instances), time)
         ELSE cleanStaleInstances(Tail(instances), time)

\* instances.findIndex(i => i.id === id), 0 for -1
findIndex(instances, id) ==
    IF \E k \in 1 .. Len(instances) : instances[k].id = id
    THEN CHOOSE k \in 1 .. Len(instances) :
            /\ instances[k].id = id
            /\ \A j \in 1 .. k - 1 : instances[j].id # id
    ELSE 0

\* register's modifier
registerModifier(instances, self, port, pid, time) ==
    Append(filterOut(instances, self), instanceInfo(self, port, pid, time))

\* A mutant of unregister's modifier: nothing is filtered out.
unregisterKeepsAll(instances, self, port, pid, time) == instances

\* unregister's modifier
unregisterModifier(instances, self, port, pid, time) ==
    filterOut(instances, self)

\* A mutant of updateHeartbeatModifier: the record is pushed without looking
\* for the one already there.
updateHeartbeatAlwaysPush(instances, self, port, pid, time) ==
    Append(instances, instanceInfo(self, port, pid, time))

\* updateHeartbeat's modifier
updateHeartbeatModifier(instances, self, port, pid, time) ==
    LET index == findIndex(instances, self) IN
    IF index > 0
    THEN [instances EXCEPT ![index].lastHeartbeat = time, ![index].port = port]
    ELSE Append(instances, instanceInfo(self, port, pid, time))

\* tryPort(port, maxAttempts): the port bound, 0 when the attempts run out.
RECURSIVE tryPort(_, _, _)
tryPort(port, maxAttempts, inUse) ==
    IF maxAttempts <= 0 THEN 0
    ELSE IF port \in inUse THEN tryPort(port + 1, maxAttempts - 1, inUse)
    ELSE port

NoFile == [exists |-> FALSE, instances |-> <<>>]

\* The process a frame runs in.
HostOf(f) == IF f[1] = "stop" THEN f[2] ELSE fHost[f[2]]

\* The frame may take a step: its process lives, and no other callback of the
\* process is in the middle of a synchronous run.
CanRun(f) ==
    /\ ~crashed[HostOf(f)]
    /\ \A g \in Frames \ {f} : HostOf(g) = HostOf(f) => pc[g] \notin MidSync

\* The ports in use on loopback: those of listening servers and of processes
\* that are no part of the fabric.
portsInUse ==
    busy \cup { srv[k].port : k \in { j \in FabInst : srv[j].state = "listening" } }

\* HttpServer.isRunning of the host's global `server`
isRunning(h) == gServer[h] # "null" /\ srv[gServer[h]].state = "listening"

\* How each startServer invocation is placed on the host processes.
HostMaps == { [k \in FabInst |-> IF k = "i1" THEN "h1" ELSE "h2"] }

\* The ports that processes outside the fabric hold: none, or every port a
\* server may try but the first, so that only one server can bind.
BusySets == { {}, (DEFAULT_PORT + 1) .. (DEFAULT_PORT + MAX_PORT_ATTEMPTS - 1) }

FabInit ==
    /\ now = 0
    /\ lock = NoLock
    /\ regFile = NoFile
    /\ fHost \in HostMaps
    /\ busy \in BusySets
    /\ gServer = [h \in Hosts |-> "null"]
    /\ gRegistry = [h \in Hosts |-> "null"]
    /\ srv = [k \in FabInst |-> [state |-> "none", port |-> 0]]
    /\ regPort = [k \in FabInst |-> 0]
    /\ hbTimer = [k \in FabInst |-> NoTimer]
    /\ pc = [f \in Frames |-> IF f[1] = "start" THEN "new" ELSE "idle"]
    /\ tgt = [f \in Frames |-> IF f[1] = "stop" THEN "null" ELSE f[2]]
    /\ buf = [f \in Frames |-> <<>>]
    /\ crashed = [h \in Hosts |-> FALSE]
    /\ fFailed = [k \in FabInst |-> FALSE]
    /\ unregOk = [k \in FabInst |-> FALSE]

\* An instance that registered, sent its last heartbeat one heartbeat interval
\* before the clock's origin, and whose host process has died since.
CrashedRecord ==
    [id |-> "i0", port |-> DEFAULT_PORT + MAX_PORT_ATTEMPTS, pid |-> "h0",
     lastHeartbeat |-> 0 - HEARTBEAT_INTERVAL]

\* The hosts start over the registry file the dead instance has left behind.
CrashedInit ==
    /\ now = 0
    /\ lock = NoLock
    /\ regFile = [exists |-> TRUE, instances |-> <<CrashedRecord>>]
    /\ fHost \in HostMaps
    /\ busy = {}
    /\ gServer = [h \in Hosts |-> "null"]
    /\ gRegistry = [h \in Hosts |-> "null"]
    /\ srv = [k \in FabInst |-> [state |-> "none", port |-> 0]]
    /\ regPort = [k \in FabInst |-> 0]
    /\ hbTimer = [k \in FabInst |-> NoTimer]
    /\ pc = [f \in Frames |-> IF f[1] = "start" THEN "new" ELSE "idle"]
    /\ tgt = [f \in Frames |-> IF f[1] = "stop" THEN "null" ELSE f[2]]
    /\ buf = [f \in Frames |-> <<>>]
    /\ crashed = [h \in Hosts |-> FALSE]
    /\ fFailed = [k \in FabInst |-> FALSE]
    /\ unregOk = [k \in FabInst |-> FALSE]

\* getAllInstances(): the records of the registry file that are not stale at
\* the time of the call.
getAllInstances(file, time) == cleanStaleInstances(file.instances, time)

\* acquireLock's fs.existsSync(LOCK_FILE), with which every attempt begins:
\* on to statSync when the sentinel is there, to the exclusive create otherwise.
existsSync == IF lock.by[1] # "none" THEN "stat" ELSE "create"

\* stopServer from `if (server)` on: server.stop() awaits the close callback
\* of a listening server and resolves at once otherwise; then server = null.
stopServerTail(f, h) ==
    IF gServer[h] # "null" /\ srv[gServer[h]].state = "listening"
    THEN /\ srv' = [srv EXCEPT ![gServer[h]].state = "closing"]
         /\ pc' = [pc EXCEPT ![f] = "closing"]
         /\ tgt' = [tgt EXCEPT ![f] = gServer[h]]
         /\ UNCHANGED gServer
    ELSE /\ gServer' = [gServer EXCEPT ![h] = "null"]
         /\ pc' = [pc EXCEPT ![f] = "idle"]
         /\ tgt' = [tgt EXCEPT ![f] = "null"]
         /\ UNCHANGED srv

\* A mutant of heartbeatCaught: a failed heartbeat clears the interval timer.
heartbeatCaughtStops(timer) == NoTimer

\* The interval timer after updateHeartbeat's catch logged the error of a
\* failed modifyRegistry: the catch does not throw and touches no timer.
heartbeatCaught(timer) == timer

\* What follows the modifyRegistry call of frame f, which returned (ok) or
\* threw: register starts the heartbeat and startServer returns (or catches);
\* updateHeartbeat swallows the error; unregister swallows it and stopServer
\* goes on with registry = null and the server's stop.
settle(f, ok) ==
    /\ fFailed' = IF ok THEN fFailed ELSE [fFailed EXCEPT ![tgt[f]] = TRUE]
    /\ CASE f[1] = "start" ->
              /\ hbTimer' = IF ok THEN [hbTimer EXCEPT ![tgt[f]] = setInterval(now)]
                                ELSE hbTimer
              /\ pc' = [pc EXCEPT ![f] = IF ok THEN "done" ELSE "failed"]
              /\ UNCHANGED <<gServer, gRegistry, srv, tgt, unregOk>>
         [] f[1] = "beat" ->
              /\ hbTimer' = IF ok THEN hbTimer
                            ELSE [hbTimer EXCEPT ![f[2]] = heartbeatCaught(hbTimer[f[2]])]
              /\ pc' = [pc EXCEPT ![f] = "idle"]
              /\ UNCHANGED <<gServer, gRegistry, srv, tgt, unregOk>>
         [] f[1] = "stop" ->
              /\ unregOk' = IF ok THEN [unregOk EXCEPT ![tgt[f]] = TRUE] ELSE unregOk
              /\ gRegistry' = [gRegistry EXCEPT ![f[2]] = "null"]
              /\ stopServerTail(f, f[2])
              /\ UNCHANGED hbTimer

\* A mutant of startResolved: startServer goes on to register() although
\* server.start() rejected.
startAlwaysResolved(port) == TRUE

\* startServer's try block: `await server.start()` returned a port, so that
\* setPort and register() follow; a rejection goes to the catch instead.
startResolved(port) == port # 0

\* startServer(): invocation k, from the command or the auto-start timer up to
\* and including the first existsSync of register()'s acquireLock. The listen attempts of tryPort and
\* the continuations behind them run before any other callback of the process.
startServer(k) ==
    /\ pc[StartFrame(k)] = "new"
    /\ CanRun(StartFrame(k))
    /\ LET h == fHost[k]
           port == tryPort(DEFAULT_PORT, MAX_PORT_ATTEMPTS, portsInUse) IN
       IF isRunning(h)
       THEN \* 'ClankerContext server is already running'
            /\ pc' = [pc EXCEPT ![StartFrame(k)] = "done"]
            /\ UNCHANGED <<gServer, gRegistry, srv, regPort, tgt>>
       ELSE /\ gRegistry' = [gRegistry EXCEPT ![h] = k]
            /\ gServer' = [gServer EXCEPT ![h] = k]
            /\ srv' = [srv EXCEPT ![k] =
                         IF port = 0
                         THEN [state |-> "none", port |-> DEFAULT_PORT]
                         ELSE [state |-> "listening", port |-> port]]
            /\ IF startResolved(port)
               THEN /\ regPort' = [regPort EXCEPT ![k] = port]   \* registry.setPort
                    /\ pc' = [pc EXCEPT ![StartFrame(k)] = existsSync]
                    /\ UNCHANGED tgt
               ELSE \* 'Could not find an available port': caught, reported
                    /\ regPort' = [regPort EXCEPT ![k] = DEFAULT_PORT]
                    /\ pc' = [pc EXCEPT ![StartFrame(k)] = "failed"]
                    /\ UNCHANGED tgt
    /\ UNCHANGED <<now, lock, regFile, fHost, busy, hbTimer, buf, crashed, fFailed, unregOk>>
    /\ FabOnly

\* The setInterval callback of registry object k, due every HEARTBEAT_INTERVAL:
\* updateHeartbeat() begins, up to and including acquireLock's first existsSync.
heartbeatTick(k) ==
    /\ hbTimer[k].set
    /\ now >= hbTimer[k].due
    /\ pc[BeatFrame(k)] = "idle"
    /\ CanRun(BeatFrame(k))
    /\ hbTimer' = [hbTimer EXCEPT ![k] = setInterval(now)]
    /\ pc' = [pc EXCEPT ![BeatFrame(k)] = existsSync]
    /\ UNCHANGED <<now, lock, regFile, fHost, busy, gServer, gRegistry, srv, regPort,
                   tgt, buf, crashed, fFailed, unregOk>>
    /\ FabOnly

\* stopServer(): from the command up to and including the first existsSync of
\* unregister()'s acquireLock, or, without a registry, up to the server's stop.
stopServer(h) ==
    /\ pc[StopFrame(h)] = "idle"
    /\ CanRun(StopFrame(h))
    /\ gRegistry[h] # "null" \/ gServer[h] # "null"
    /\ IF gRegistry[h] # "null"
       THEN /\ hbTimer' = [hbTimer EXCEPT ![gRegistry[h]] = NoTimer]   \* stopHeartbeat
            /\ pc' = [pc EXCEPT ![StopFrame(h)] = existsSync]
            /\ tgt' = [tgt EXCEPT ![StopFrame(h)] = gRegistry[h]]
            /\ UNCHANGED <<gServer, srv>>
       ELSE /\ stopServerTail(StopFrame(h), h)
            /\ UNCHANGED hbTimer
    /\ UNCHANGED <<now, lock, regFile, fHost, busy, gRegistry, regPort, buf, crashed,
                   fFailed, unregOk>>
    /\ FabOnly

\* The close callback of HttpServer.stop: this.server = null; then stopServer
\* sets the global server = null.
serverClosed(h) ==
    /\ pc[StopFrame(h)] = "closing"
    /\ CanRun(StopFrame(h))
    /\ srv' = [srv EXCEPT ![tgt[StopFrame(h)]].state = "closed"]
    /\ gServer' = [gServer EXCEPT ![h] = "null"]
    /\ pc' = [pc EXCEPT ![StopFrame(h)] = "idle"]
    /\ tgt' = [tgt EXCEPT ![StopFrame(h)] = "null"]
    /\ UNCHANGED <<now, lock, regFile, fHost, busy, gRegistry, regPort, hbTimer, buf,
                   crashed, fFailed, unregOk>>
    /\ FabOnly

\* acquireLock: age = Date.now() - stats.mtimeMs; age > LOCK_STALE_MS
lockIsStale(mtime, time) == time - mtime > LOCK_STALE_MS

\* acquireLock: fs.statSync(LOCK_FILE) and the age test; a sentinel that is
\* gone by now makes statSync throw ENOENT, which acquireLock rethrows.
lockStat(f) ==
    /\ pc[f] = "stat"
    /\ CanRun(f)
    /\ IF lock.by[1] = "none"
       THEN settle(f, FALSE)
       ELSE /\ pc' = [pc EXCEPT ![f] = IF lockIsStale(lock.mtime, now)
                                       THEN "unlink" ELSE "create"]
            /\ UNCHANGED <<gServer, gRegistry, srv, hbTimer, tgt, fFailed, unregOk>>
    /\ UNCHANGED <<now, lock, regFile, fHost, busy, regPort, buf, crashed>>
    /\ FabOnly

\* acquireLock: fs.unlinkSync(LOCK_FILE) of the sentinel found stale, errors ignored
lockUnlink(f) ==
    /\ pc[f] = "unlink"
    /\ CanRun(f)
    /\ lock' = NoLock
    /\ pc' = [pc EXCEPT ![f] = "create"]
    /\ UNCHANGED <<now, regFile, fHost, busy, gServer, gRegistry, srv, regPort,
                   hbTimer, tgt, buf, crashed, fFailed, unregOk>>
    /\ FabOnly

\* acquireLock: fs.writeFileSync(LOCK_FILE, pid, {flag: 'wx'}): the lock is
\* acquired, or EEXIST sends the frame to sleep(LOCK_RETRY_DELAY).
lockCreate(f) ==
    /\ pc[f] = "create"
    /\ CanRun(f)
    /\ IF lock.by[1] = "none"
       THEN /\ lock' = [by |-> f, mtime |-> now]
            /\ pc' = [pc EXCEPT ![f] = "read"]
       ELSE /\ pc' = [pc EXCEPT ![f] = "sleep"]
            /\ UNCHANGED lock
    /\ UNCHANGED <<now, regFile, fHost, busy, gServer, gRegistry, srv, regPort,
                   hbTimer, tgt, buf, crashed, fFailed, unregOk>>
    /\ FabOnly

\* acquireLock: the sleep is over, the next iteration of the retry loop begins
\* with its existsSync.
lockRetry(f) ==
    /\ pc[f] = "sleep"
    /\ CanRun(f)
    /\ pc' = [pc EXCEPT ![f] = existsSync]
    /\ UNCHANGED <<now, lock, regFile, fHost, busy, gServer, gRegistry, srv, regPort,
                   hbTimer, tgt, buf, crashed, fFailed, unregOk>>
    /\ FabOnly

\* acquireLock: every remaining iteration of the retry loop finds the sentinel
\* of another frame, not yet stale, so that after LOCK_MAX_RETRIES attempts
\* 'Failed to acquire lock after maximum retries' is thrown. The attempts take
\* (LOCK_MAX_RETRIES - 1) * LOCK_RETRY_DELAY ms at least, during which nothing
\* else happens here.
lockExhausted(f) ==
    /\ pc[f] = "sleep"
    /\ CanRun(f)
    /\ lock.by[1] # "none"
    /\ \E t \in TimePoints :
          /\ t >= now + (LOCK_MAX_RETRIES - 1) * LOCK_RETRY_DELAY
          /\ ~lockIsStale(lock.mtime, t)
          /\ now' = t
    /\ settle(f, FALSE)
    /\ UNCHANGED <<lock, regFile, fHost, busy, regPort, buf, crashed>>
    /\ FabOnly

\* The modifier that the frame's operation hands to modifyRegistry.
modifier(f, instances, self, port, pid, time) ==
    CASE f[1] = "start" -> registerModifier(instances, self, port, pid, time)
      [] f[1] = "beat" -> updateHeartbeatModifier(instances, self, port, pid, time)
      [] f[1] = "stop" -> unregisterModifier(instances, self, port, pid, time)

\* modifyRegistry, first half: readRegistryUnsafe (ensureRegistryFile creates
\* an absent file), cleanStaleInstances and the modifier, all at one Date.now().
critRead(f) ==
    /\ pc[f] = "read"
    /\ CanRun(f)
    /\ regFile' = [regFile EXCEPT !.exists = TRUE]
    /\ buf' = [buf EXCEPT ![f] =
                 modifier(f, cleanStaleInstances(regFile.instances, now),
                          tgt[f], regPort[tgt[f]], HostOf(f), now)]
    /\ pc' = [pc EXCEPT ![f] = "write"]
    /\ UNCHANGED <<now, lock, fHost, busy, gServer, gRegistry, srv, regPort,
                   hbTimer, tgt, crashed, fFailed, unregOk>>
    /\ FabOnly

\* modifyRegistry: writeRegistryAtomic({instances}), the rename that replaces
\* the registry file.
critWrite(f) ==
    /\ pc[f] = "write"
    /\ CanRun(f)
    /\ regFile' = [exists |-> TRUE, instances |-> buf[f]]
    /\ buf' = [buf EXCEPT ![f] = <<>>]
    /\ pc' = [pc EXCEPT ![f] = "release"]
    /\ UNCHANGED <<now, lock, fHost, busy, gServer, gRegistry, srv, regPort,
                   hbTimer, tgt, crashed, fFailed, unregOk>>
    /\ FabOnly

\* modifyRegistry: writeRegistryAtomic throws (the write of the temporary file
\* or the rename failed); the registry file is as it was and the finally is next.
critWriteFails(f) ==
    /\ pc[f] = "write"
    /\ CanRun(f)
    /\ buf' = [buf EXCEPT ![f] = <<>>]
    /\ pc' = [pc EXCEPT ![f] = "releaseErr"]
    /\ UNCHANGED <<now, lock, regFile, fHost, busy, gServer, gRegistry, srv, regPort,
                   hbTimer, tgt, crashed, fFailed, unregOk>>
    /\ FabOnly

\* modifyRegistry's finally: releaseLock removes the sentinel that is there,
\* whoever created it; then modifyRegistry returns, or rethrows the error of
\* the write, and the operation that called it goes on.
critRelease(f) ==
    /\ pc[f] \in {"release", "releaseErr"}
    /\ CanRun(f)
    /\ lock' = NoLock
    /\ settle(f, pc[f] = "release")
    /\ UNCHANGED <<now, regFile, fHost, busy, regPort, buf, crashed>>
    /\ FabOnly

\* The host process dies (killed, or VS Code crashes): its callbacks never run
\* again, its memory is gone, its listeners are closed by the system; the
\* files stay as they are.
crash(h) ==
    /\ ~crashed[h]
    /\ crashed' = [crashed EXCEPT ![h] = TRUE]
    /\ pc' = [f \in Frames |-> IF HostOf(f) = h THEN "dead" ELSE pc[f]]
    /\ buf' = [f \in Frames |-> IF HostOf(f) = h THEN <<>> ELSE buf[f]]
    /\ tgt' = [f \in Frames |-> IF f[1] = "stop" /\ f[2] = h THEN "null" ELSE tgt[f]]
    /\ srv' = [k \in FabInst |->
                 IF fHost[k] = h /\ srv[k].state # "none"
                 THEN [srv[k] EXCEPT !.state = "closed"] ELSE srv[k]]
    /\ hbTimer' = [k \in FabInst |-> IF fHost[k] = h THEN NoTimer ELSE hbTimer[k]]
    /\ gServer' = [gServer EXCEPT ![h] = "null"]
    /\ gRegistry' = [gRegistry EXCEPT ![h] = "null"]
    /\ UNCHANGED <<now, lock, regFile, fHost, busy, regPort, fFailed, unregOk>>
    /\ FabOnly

\* The wall clock moves on.
advanceTime ==
    /\ now + HEARTBEAT_INTERVAL \in TimePoints
    /\ now' = now + HEARTBEAT_INTERVAL
    /\ UNCHANGED <<lock, regFile, fHost, busy, gServer, gRegistry, srv, regPort,
                   hbTimer, pc, tgt, buf, crashed, fFailed, unregOk>>
    /\ FabOnly

FabNext ==
    \/ \E k \in FabInst : startServer(k)
    \/ \E k \in FabInst : heartbeatTick(k)
    \/ \E h \in StopHosts : stopServer(h)
    \/ \E h \in StopHosts : serverClosed(h)
    \/ \E f \in Frames : lockStat(f)
    \/ \E f \in Frames : lockUnlink(f)
    \/ \E f \in Frames : lockCreate(f)
    \/ \E f \in Frames : lockRetry(f)
    \/ \E f \in Frames : lockExhausted(f)
    \/ \E f \in Frames : critRead(f)
    \/ \E f \in Frames : critWrite(f)
    \/ \E f \in Frames : critWriteFails(f)
    \/ \E f \in Frames : critRelease(f)
    \/ \E h \in Hosts : crash(h)
    \/ advanceTime

(***************************************************************************)
(* Browser side: instance selection and dispatch of a send                 *)
(* (popup handleInstanceSelect / send, MessageRouter SEND_TO_VSCODE,       *)
(* VSCodeClient.sendMessage)                                               *)
(***************************************************************************)

\* Bound: the number of sends of one run.
MaxSends == 2

\* The records discoverInstances has returned to the instance picker: each
\* instance with the port it serves on.
Discovered ==
    { [id |-> "i1", port |-> 41970], [id |-> "i2", port |-> 41971],
      [id |-> "i3", port |-> 41972] }

\* A connection without a selection (selectedInstanceId, selectedInstancePort
\* undefined).
NoSelection == [selectedInstanceId |-> "", selectedInstancePort |-> 0]

RouterIdle == [pc |-> "idle", instanceId |-> "", port |-> 0]

\* The request vsCodeClient.sendMessage makes:
\* POST http://localhost:${instancePort}/instance/${instanceId}/send
sendMessage(instanceId, instancePort) ==
    [port |-> instancePort, path |-> <<"instance", instanceId, "send">>]

SendInit ==
    /\ sConn = NoSelection
    /\ sQueue = <<>>
    /\ sRouter = RouterIdle
    /\ sPosts = <<>>

\* The sends begun so far, bounded by MaxSends.
sendsBegun == Len(sQueue) + Len(sPosts) + (IF sRouter.pc = "idle" THEN 0 ELSE 1)

\* The instance picker's handleInstanceSelect and the router's
\* UPDATE_CONNECTION: id and port of one discovered record are stored.
handleInstanceSelect(instance) ==
    /\ sConn' = [selectedInstanceId |-> instance.id,
                 selectedInstancePort |-> instance.port]
    /\ UNCHANGED <<sQueue, sRouter, sPosts>>
    /\ SendOnly

\* The popup's send action: the active connection as GET_CONNECTIONS returned
\* it; when an instance is selected, SEND_TO_VSCODE goes out with its id.
popupSend ==
    /\ sendsBegun < MaxSends
    /\ sConn.selectedInstanceId # ""
    /\ sQueue' = Append(sQueue, [instanceId |-> sConn.selectedInstanceId])
    /\ UNCHANGED <<sConn, sRouter, sPosts>>
    /\ SendOnly

\* case 'SEND_TO_VSCODE', up to the await of exportIssue: the connection is
\* read from storage; without a stored port the case throws.
routerSendToVSCode ==
    /\ sRouter.pc = "idle"
    /\ sQueue # <<>>
    /\ sQueue' = Tail(sQueue)
    /\ sRouter' = IF sConn.selectedInstancePort = 0
                  THEN RouterIdle
                  ELSE [pc |-> "export", instanceId |-> Head(sQueue).instanceId,
                        port |-> sConn.selectedInstancePort]
    /\ UNCHANGED <<sConn, sPosts>>
    /\ SendOnly

\* case 'SEND_TO_VSCODE', after exportIssue:
\* vsCodeClient.sendMessage(message.instanceId, connection.selectedInstancePort, markdown)
routerDispatch ==
    /\ sRouter.pc = "export"
    /\ sPosts' = Append(sPosts, sendMessage(sRouter.instanceId, sRouter.port))
    /\ sRouter' = RouterIdle
    /\ UNCHANGED <<sConn, sQueue>>
    /\ SendOnly

\* The auto-send after an issue is captured: id and port are taken from one
\* read of the connection.
autoSend ==
    /\ sendsBegun < MaxSends
    /\ sConn.selectedInstanceId # ""
    /\ sConn.selectedInstancePort # 0
    /\ sPosts' = Append(sPosts,
                   sendMessage(sConn.selectedInstanceId, sConn.selectedInstancePort))
    /\ UNCHANGED <<sConn, sQueue, sRouter>>
    /\ SendOnly

SendNext ==
    \/ \E instance \in Discovered : handleInstanceSelect(instance)
    \/ popupSend
    \/ routerSendToVSCode
    \/ routerDispatch
    \/ autoSend

(***************************************************************************)
(* HttpServer.start / tryPort, one listen attempt at a time                *)
(***************************************************************************)

\* The ports a server is constructed with: the default and a configured one.
PreferredPorts == {DEFAULT_PORT, 8080}

\* The port range start(preferred) may bind.
PortRange(preferred) == preferred .. preferred + (MAX_PORT_ATTEMPTS - 1)

\* The sets of ports in use: the first k ports of the range, for every k, and
\* with them the port below the range, the port after the first free one, or
\* the port behind the range.
InUseSets(preferred) ==
    UNION { { (preferred .. preferred + k - 1) \cup x :
                x \in { {}, {preferred - 1}, {preferred + k + 1},
                        {preferred + MAX_PORT_ATTEMPTS} } } :
            k \in 0 .. MAX_PORT_ATTEMPTS }

NoServer == [state |-> "null", port |-> 0]

PortIdle ==
    /\ tPreferred = DEFAULT_PORT
    /\ tInUse = {}
    /\ tPort = 0
    /\ tAttempts = 0
    /\ tTried = <<>>
    /\ tServer = NoServer
    /\ tPromise = "none"

\* new HttpServer(registry, port), in a world where some ports are in use.
PortInit ==
    /\ tPreferred \in PreferredPorts
    /\ tInUse \in InUseSets(tPreferred)
    /\ tPort = 0
    /\ tAttempts = 0
    /\ tTried = <<>>
    /\ tServer = [state |-> "null", port |-> tPreferred]
    /\ tPromise = "none"

\* start(): return this.tryPort(this.port), maxAttempts defaulting to
\* MAX_PORT_ATTEMPTS.
start ==
    /\ tPromise = "none"
    /\ tPort' = tServer.port
    /\ tAttempts' = MAX_PORT_ATTEMPTS
    /\ tPromise' = "pending"
    /\ UNCHANGED <<tPreferred, tInUse, tTried, tServer>>
    /\ PortOnly

\* A mutant of attemptsExhausted: the search gives up one attempt early.
attemptsExhaustedEarly(maxAttempts) == maxAttempts <= 1

\* tryPort: if (maxAttempts <= 0)
attemptsExhausted(maxAttempts) == maxAttempts <= 0

\* One call of tryPort(port, maxAttempts) with the event that answers its
\* listen(): rejection when the attempts are used up; on EADDRINUSE
\* this.server = null and the call for port + 1; on 'listening' this.port =
\* port and the promise resolves.
tryPortAttempt ==
    /\ tPromise = "pending"
    /\ IF attemptsExhausted(tAttempts)
       THEN /\ tPromise' = "rejected"
            /\ UNCHANGED <<tPort, tAttempts, tTried, tServer>>
       ELSE /\ tTried' = Append(tTried, tPort)
            /\ IF tPort \in tInUse
               THEN /\ tServer' = [tServer EXCEPT !.state = "null"]
                    /\ tPort' = tPort + 1
                    /\ tAttempts' = tAttempts - 1
                    /\ UNCHANGED tPromise
               ELSE /\ tServer' = [state |-> "listening", port |-> tPort]
                    /\ tPromise' = "resolved"
                    /\ UNCHANGED <<tPort, tAttempts>>
    /\ UNCHANGED <<tPreferred, tInUse>>
    /\ PortOnly

PortNext ==
    \/ start
    \/ tryPortAttempt

(***************************************************************************)
(* The registry file, one system call at a time                            *)
(*                                                                         *)
(* Registry objects of different host processes call getAllInstances,      *)
(* register, unregister and updateHeartbeat over a registry file of any    *)
(* earlier content. Each file system call is a step of its own. The lock   *)
(* is taken by the exclusive create of the sentinel and given back before  *)
(* the clock moves, so its stale takeover and its retry limit, which the   *)
(* part above models, do not come into play here.                          *)
(***************************************************************************)

MaxTicks == 2
MaxFaults == 1
RegClock == { b * HEARTBEAT_INTERVAL : b \in 0 .. MaxTicks }

\* The registry object that registers, beats and unregisters, and the one
\* whose host serves /instances with getAllInstances.
Writers == {"i1"}
Readers == {"i2"}

\* Instances that registered earlier and whose records are in the file.
Others == {"o1", "o2"}

\* Their heartbeat stamps: older than the stale threshold at clock 0, exactly
\* as old, and younger by one and a half and by half a heartbeat interval.
Stamps ==
    { 0 - (STALE_THRESHOLD + HEARTBEAT_INTERVAL \div 2),
      0 - STALE_THRESHOLD,
      0 - (STALE_THRESHOLD - HEARTBEAT_INTERVAL \div 2),
      0 - HEARTBEAT_INTERVAL \div 2 }

\* this.port and this.pid of a registry object.
PortOf(self) ==
    CASE self = "i1" -> DEFAULT_PORT
      [] self = "i2" -> DEFAULT_PORT + 1
      [] self = "o1" -> DEFAULT_PORT + 2
      [] self = "o2" -> DEFAULT_PORT + 3
PidOf(self) == self

\* Lists of records the earlier instances left.
Contents ==
    {<<>>}
      \cup { <<instanceInfo("o1", PortOf("o1"), PidOf("o1"), t)>> : t \in Stamps }
      \cup { <<instanceInfo("o1", PortOf("o1"), PidOf("o1"), t),
               instanceInfo("o2", PortOf("o2"), PidOf("o2"),
                            0 - HEARTBEAT_INTERVAL \div 2)>> : t \in Stamps }

\* The registry file: absent, opened for writing and still empty, holding the
\* JSON of a list, or holding text that does not parse (in which the records
\* of `instances` can still be made out).
Absent == [state |-> "absent", instances |-> <<>>]
Partial == [state |-> "partial", instances |-> <<>>]
Json(instances) == [state |-> "json", instances |-> instances]
Corrupt(instances) == [state |-> "corrupt", instances |-> instances]
Files ==
    {Absent} \cup { Json(c) : c \in Contents }
             \cup { Corrupt(c) : c \in { d \in Contents : Len(d) = 2 /\ d[1].lastHeartbeat = d[2].lastHeartbeat } }

\* A mutant of readRegistryUnsafe: the records that can be made out in a text
\* that does not parse are returned.
readRegistrySalvaged(file) == file.instances

\* readRegistryUnsafe after ensureRegistryFile: the parsed list, the empty
\* list when reading or parsing throws.
readRegistryUnsafe(file) ==
    IF file.state = "json" THEN file.instances ELSE <<>>

NoOut == [src |-> "none", instances |-> <<>>]

\* The last two writes to the file, newest last.
logged(log, entry) ==
    IF Len(log) < 2 THEN Append(log, entry) ELSE <<log[2], entry>>

RegInit ==
    /\ rNow = 0
    /\ rLock = "none"
    /\ rFile \in Files
    /\ rPc = [p \in FabInst |-> "idle"]
    /\ rOp = [p \in FabInst |-> "none"]
    /\ rBuf = [p \in FabInst |-> <<>>]
    /\ rSeen = [p \in FabInst |-> <<>>]
    /\ rFd = [p \in FabInst |-> FALSE]
    /\ rReg = [p \in FabInst |-> FALSE]
    /\ rOut = [p \in FabInst |-> NoOut]
    /\ rLog = <<>>
    /\ rTmp = [p \in FabInst |-> FALSE]
    /\ rErr = [p \in FabInst |-> "none"]
    /\ rFaults = 0

\* ensureRegistryFile's existsSync, the first call of readRegistryUnsafe.
afterExists == IF rFile.state = "absent" THEN "open" ELSE "readf"

\* getAllInstances is called.
snapshot(p) ==
    /\ rPc[p] = "idle"
    /\ rOp' = [rOp EXCEPT ![p] = "snapshot"]
    /\ rPc' = [rPc EXCEPT ![p] = afterExists]
    /\ rOut' = [rOut EXCEPT ![p] = NoOut]
    /\ UNCHANGED <<rNow, rLock, rFile, rBuf, rSeen, rFd, rReg, rLog, rTmp, rErr, rFaults>>
    /\ RegOnly

\* register is called: modifyRegistry waits for the lock.
register(p) ==
    /\ rPc[p] = "idle"
    /\ ~rReg[p]
    /\ rOp' = [rOp EXCEPT ![p] = "register"]
    /\ rErr' = [rErr EXCEPT ![p] = "none"]
    /\ rPc' = [rPc EXCEPT ![p] = "lock"]
    /\ UNCHANGED <<rNow, rLock, rFile, rBuf, rSeen, rFd, rReg, rOut, rLog, rTmp, rFaults>>
    /\ RegOnly

\* unregister is called: stopHeartbeat, then modifyRegistry waits for the lock.
unregister(p) ==
    /\ rPc[p] = "idle"
    /\ rReg[p]
    /\ rReg' = [rReg EXCEPT ![p] = FALSE]
    /\ rOp' = [rOp EXCEPT ![p] = "unregister"]
    /\ rErr' = [rErr EXCEPT ![p] = "none"]
    /\ rPc' = [rPc EXCEPT ![p] = "lock"]
    /\ UNCHANGED <<rNow, rLock, rFile, rBuf, rSeen, rFd, rOut, rLog, rTmp, rFaults>>
    /\ RegOnly

\* The heartbeat timer fires: updateHeartbeat, modifyRegistry waits for the lock.
updateHeartbeat(p) ==
    /\ rPc[p] = "idle"
    /\ rReg[p]
    /\ rOp' = [rOp EXCEPT ![p] = "heartbeat"]
    /\ rErr' = [rErr EXCEPT ![p] = "none"]
    /\ rPc' = [rPc EXCEPT ![p] = "lock"]
    /\ UNCHANGED <<rNow, rLock, rFile, rBuf, rSeen, rFd, rReg, rOut, rLog, rTmp, rFaults>>
    /\ RegOnly

\* acquireLock: openSync(LOCK_FILE, 'wx') succeeds when no sentinel is there;
\* then readRegistryUnsafe begins with ensureRegistryFile's existsSync.
acquireLock(p) ==
    /\ rPc[p] = "lock"
    /\ rLock = "none"
    /\ rLock' = p
    /\ rPc' = [rPc EXCEPT ![p] = afterExists]
    /\ UNCHANGED <<rNow, rFile, rOp, rBuf, rSeen, rFd, rReg, rOut, rLog, rTmp, rErr, rFaults>>
    /\ RegOnly

\* ensureRegistryFile's writeFileSync opens the file: it is created if absent
\* and emptied if it is there by now.
ensureRegistryFile(p) ==
    /\ rPc[p] = "open"
    /\ rFile' = Partial
    /\ rFd' = [rFd EXCEPT ![p] = TRUE]
    /\ rLog' = logged(rLog, [who |-> p, op |-> "create", before |-> <<>>,
                             after |-> <<>>, at |-> rNow])
    /\ rPc' = [rPc EXCEPT ![p] = "fill"]
    /\ UNCHANGED <<rNow, rLock, rOp, rBuf, rSeen, rReg, rOut, rTmp, rErr, rFaults>>
    /\ RegOnly

\* ensureRegistryFile's writeFileSync writes {instances: []} through the
\* descriptor it opened; a file renamed over the path since is not touched.
ensureRegistryFileWrite(p) ==
    /\ rPc[p] = "fill"
    /\ rFile' = IF rFd[p] THEN Json(<<>>) ELSE rFile
    /\ rFd' = [rFd EXCEPT ![p] = FALSE]
    /\ rPc' = [rPc EXCEPT ![p] = "readf"]
    /\ UNCHANGED <<rNow, rLock, rOp, rBuf, rSeen, rReg, rOut, rLog, rTmp, rErr, rFaults>>
    /\ RegOnly

\* getAllInstances: readRegistryUnsafe reads and parses the file, and
\* cleanStaleInstances filters what it returned.
getAllInstancesRead(p) ==
    /\ rPc[p] = "readf"
    /\ rOp[p] = "snapshot"
    /\ rOut' = [rOut EXCEPT ![p] =
                  [src |-> rFile.state,
                   instances |-> cleanStaleInstances(readRegistryUnsafe(rFile), rNow)]]
    /\ rPc' = [rPc EXCEPT ![p] = "idle"]
    /\ rOp' = [rOp EXCEPT ![p] = "none"]
    /\ UNCHANGED <<rNow, rLock, rFile, rBuf, rSeen, rFd, rReg, rLog, rTmp, rErr, rFaults>>
    /\ RegOnly

\* The modifier of the operation in progress.
modifierOf(op, instances, self, time) ==
    CASE op = "register" -> registerModifier(instances, self, PortOf(self), PidOf(self), time)
      [] op = "heartbeat" -> updateHeartbeatModifier(instances, self, PortOf(self), PidOf(self), time)
      [] op = "unregister" -> unregisterModifier(instances, self, PortOf(self), PidOf(self), time)

\* modifyRegistry: readRegistryUnsafe reads and parses the file, then
\* cleanStaleInstances and the modifier.
modifyRegistryRead(p) ==
    /\ rPc[p] = "readf"
    /\ rOp[p] # "snapshot"
    /\ rSeen' = [rSeen EXCEPT ![p] = readRegistryUnsafe(rFile)]
    /\ rBuf' = [rBuf EXCEPT ![p] =
                  modifierOf(rOp[p], cleanStaleInstances(readRegistryUnsafe(rFile), rNow),
                             p, rNow)]
    /\ rPc' = [rPc EXCEPT ![p] = "wtemp"]
    /\ UNCHANGED <<rNow, rLock, rFile, rOp, rFd, rReg, rOut, rLog, rTmp, rErr, rFaults>>
    /\ RegOnly

\* writeRegistryAtomic: writeFileSync writes the list to the process's own
\* temporary file.
writeRegistryAtomicTemp(p) ==
    /\ rPc[p] = "wtemp"
    /\ rTmp' = [rTmp EXCEPT ![p] = TRUE]
    /\ rPc' = [rPc EXCEPT ![p] = "rename"]
    /\ UNCHANGED <<rNow, rLock, rFile, rOp, rBuf, rSeen, rFd, rReg, rOut, rLog, rErr,
                   rFaults>>
    /\ RegOnly

\* writeRegistryAtomic: writeFileSync of the temporary file throws (disk full,
\* I/O error), having created the file or not; the catch block is next.
writeRegistryAtomicTempFails(p) ==
    /\ rPc[p] = "wtemp"
    /\ rFaults < MaxFaults
    /\ rFaults' = rFaults + 1
    /\ \E created \in BOOLEAN : rTmp' = [rTmp EXCEPT ![p] = created]
    /\ rPc' = [rPc EXCEPT ![p] = "cleanup"]
    /\ UNCHANGED <<rNow, rLock, rFile, rOp, rBuf, rSeen, rFd, rReg, rOut, rLog, rErr>>
    /\ RegOnly

\* A mutant of failedRename: the registry file was opened for writing before
\* the rename failed.
failedRenameTruncates(file) == Partial

\* The registry file after a renameSync that threw: as it was.
failedRename(file) == file

\* writeRegistryAtomic: renameSync puts the temporary file in the place of the
\* registry file.
writeRegistryAtomic(p) ==
    /\ rPc[p] = "rename"
    /\ rFile' = Json(rBuf[p])
    /\ rTmp' = [rTmp EXCEPT ![p] = FALSE]
    /\ rFd' = [q \in FabInst |-> FALSE]
    /\ rLog' = logged(rLog, [who |-> p, op |-> rOp[p], before |-> rSeen[p],
                             after |-> rBuf[p], at |-> rNow])
    /\ rPc' = [rPc EXCEPT ![p] = "unlock"]
    /\ UNCHANGED <<rNow, rLock, rOp, rBuf, rSeen, rReg, rOut, rErr, rFaults>>
    /\ RegOnly

\* writeRegistryAtomic: renameSync throws; the catch block is next.
writeRegistryAtomicRenameFails(p) ==
    /\ rPc[p] = "rename"
    /\ rFaults < MaxFaults
    /\ rFaults' = rFaults + 1
    /\ rFile' = failedRename(rFile)
    /\ rPc' = [rPc EXCEPT ![p] = "cleanup"]
    /\ UNCHANGED <<rNow, rLock, rOp, rBuf, rSeen, rFd, rReg, rOut, rLog, rTmp, rErr>>
    /\ RegOnly

\* writeRegistryAtomic's catch: the temporary file, if it exists, is unlinked,
\* an error of the unlink is ignored, and the error of the write is rethrown
\* to modifyRegistry, whose finally is next.
writeRegistryAtomicCleanup(p) ==
    /\ rPc[p] = "cleanup"
    /\ \E unlinked \in BOOLEAN :
          rTmp' = [rTmp EXCEPT ![p] = rTmp[p] /\ ~unlinked]
    /\ rErr' = [rErr EXCEPT ![p] = "io"]
    /\ rPc' = [rPc EXCEPT ![p] = "unlock"]
    /\ UNCHANGED <<rNow, rLock, rFile, rOp, rBuf, rSeen, rFd, rReg, rOut, rLog, rFaults>>
    /\ RegOnly

\* modifyRegistry's finally: releaseLock; then modifyRegistry returns or
\* rethrows, and register, when it returned, starts the heartbeat.
releaseLock(p) ==
    /\ rPc[p] = "unlock"
    /\ rLock' = "none"
    /\ rReg' = [rReg EXCEPT ![p] = (rOp[p] = "register" /\ rErr[p] = "none") \/ rReg[p]]
    /\ rBuf' = [rBuf EXCEPT ![p] = <<>>]
    /\ rSeen' = [rSeen EXCEPT ![p] = <<>>]
    /\ rPc' = [rPc EXCEPT ![p] = "idle"]
    /\ rOp' = [rOp EXCEPT ![p] = "none"]
    /\ UNCHANGED <<rNow, rFile, rFd, rOut, rLog, rTmp, rErr, rFaults>>
    /\ RegOnly

\* A heartbeat interval passes while no process is inside a run of file calls.
regTick ==
    /\ rNow < MaxTicks * HEARTBEAT_INTERVAL
    /\ \A p \in FabInst : rPc[p] \in {"idle", "lock"}
    /\ rNow' = rNow + HEARTBEAT_INTERVAL
    /\ UNCHANGED <<rLock, rFile, rPc, rOp, rBuf, rSeen, rFd, rReg, rOut, rLog, rTmp, rErr, rFaults>>
    /\ RegOnly

RegNext ==
    \/ \E p \in Readers : snapshot(p) \/ getAllInstancesRead(p)
    \/ \E p \in Writers :
          \/ register(p)
          \/ unregister(p)
          \/ updateHeartbeat(p)
          \/ acquireLock(p)
          \/ modifyRegistryRead(p)
          \/ writeRegistryAtomicTemp(p)
          \/ writeRegistryAtomicTempFails(p)
          \/ writeRegistryAtomic(p)
          \/ writeRegistryAtomicRenameFails(p)
          \/ writeRegistryAtomicCleanup(p)
          \/ releaseLock(p)
    \/ \E p \in FabInst : ensureRegistryFile(p) \/ ensureRegistryFileWrite(p)
    \/ regTick


(***************************************************************************)
(* Monitoring session state machine (SessionStateMachine) over the         *)
(* sessions store of StorageManager                                        *)
(***************************************************************************)

\* Bound: the sessions startMonitoring creates in one run.
MaxSessions == 2

Tabs == {1, 2}
IssueTypes == {"enhancement", "fix"}

\* currentSession === null
NoSession ==
    [sessionId |-> 0, startTime |-> 0, tabId |-> 0, state |-> "none",
     pendingIssueType |-> "undefined"]

VALID_TRANSITIONS ==
    { [from |-> {"idle"}, to |-> "monitoring", action |-> "startMonitoring"],
      [from |-> {"monitoring", "selecting_element"}, to |-> "selecting_element",
       action |-> "startElementSelection"],
      [from |-> {"selecting_element"}, to |-> "monitoring",
       action |-> "finishElementSelection"] }

\* A mutant of canTransition: every action is let through.
canTransitionAlways(action, state) == TRUE

\* VALID_TRANSITIONS.some(t => t.action === action && t.from.includes(state))
canTransition(action, state) ==
    \E t \in VALID_TRANSITIONS : t.action = action /\ state \in t.from

\* StorageManager.getActiveSession: of the stored sessions that are monitoring
\* or selecting_element, the one with the latest startTime, or null.
getActiveSession(store) ==
    LET activeSessions == { n \in DOMAIN store :
                              store[n].state \in {"monitoring", "selecting_element"} }
    IN IF activeSessions = {} THEN NoSession
       ELSE store[CHOOSE n \in activeSessions :
                     \A m \in activeSessions : store[m].startTime <= store[n].startTime]

\* The method that was called last and whether it threw at its checks.
called(action, threw) == [action |-> action, threw |-> threw]

\* await storageManager.saveSession(session): the store holds the session
\* under its sessionId, or the request failed and the store is as it was.
saveSession(session) ==
    \E failed \in BOOLEAN :
       sessions' = IF failed THEN sessions
                   ELSE [sessions EXCEPT ![session.sessionId] = session]

\* await storageManager.deleteSession(sessionId), likewise.
deleteSession(sessionId) ==
    \E failed \in BOOLEAN :
       sessions' = IF failed THEN sessions
                   ELSE [sessions EXCEPT ![sessionId] = NoSession]

SmInit ==
    /\ currentState = "idle"
    /\ currentSession = NoSession
    /\ sessions = [n \in 1 .. MaxSessions |-> NoSession]
    /\ smCreated = 0
    /\ smLast = [action |-> "none", threw |-> FALSE]

\* startMonitoring(tabId)
startMonitoring(tabId) ==
    /\ IF ~canTransition("startMonitoring", currentState)
       THEN /\ smLast' = called("startMonitoring", TRUE)
            /\ UNCHANGED <<currentState, currentSession, sessions, smCreated>>
       ELSE /\ smCreated < MaxSessions
            /\ LET session == [sessionId |-> smCreated + 1, startTime |-> smCreated + 1,
                               tabId |-> tabId, state |-> "monitoring",
                               pendingIssueType |-> "undefined"] IN
               /\ currentSession' = session
               /\ currentState' = "monitoring"
               /\ saveSession(session)
            /\ smCreated' = smCreated + 1
            /\ smLast' = called("startMonitoring", FALSE)
    /\ SmOnly

\* startElementSelection(issueType)
startElementSelection(issueType) ==
    /\ IF ~canTransition("startElementSelection", currentState)
          \/ currentSession = NoSession
       THEN /\ smLast' = called("startElementSelection", TRUE)
            /\ UNCHANGED <<currentState, currentSession, sessions>>
       ELSE /\ currentState' = "selecting_element"
            /\ currentSession' = [currentSession EXCEPT !.state = "selecting_element",
                                                        !.pendingIssueType = issueType]
            /\ saveSession(currentSession')
            /\ smLast' = called("startElementSelection", FALSE)
    /\ UNCHANGED smCreated
    /\ SmOnly

\* finishElementSelection()
finishElementSelection ==
    /\ IF ~canTransition("finishElementSelection", currentState)
          \/ currentSession = NoSession
       THEN /\ smLast' = called("finishElementSelection", TRUE)
            /\ UNCHANGED <<currentState, currentSession, sessions>>
       ELSE /\ currentState' = "monitoring"
            /\ currentSession' = [currentSession EXCEPT !.state = "monitoring",
                                                        !.pendingIssueType = "undefined"]
            /\ saveSession(currentSession')
            /\ smLast' = called("finishElementSelection", FALSE)
    /\ UNCHANGED smCreated
    /\ SmOnly

\* forceReset(clearData): the session is deleted from the store, or saved
\* there as idle; a failure of either is logged.
forceReset(clearData) ==
    /\ currentState' = "idle"
    /\ currentSession' = NoSession
    /\ IF currentSession = NoSession
       THEN UNCHANGED sessions
       ELSE IF clearData
            THEN deleteSession(currentSession.sessionId)
            ELSE saveSession([currentSession EXCEPT !.state = "idle",
                                                    !.pendingIssueType = "undefined"])
    /\ smLast' = called("forceReset", FALSE)
    /\ UNCHANGED smCreated
    /\ SmOnly

\* rehydrate(): a session that getActiveSession finds becomes the current
\* one; a rejection is caught.
rehydrate ==
    /\ \E rejected \in BOOLEAN :
          LET session == getActiveSession(sessions) IN
          IF ~rejected /\ session # NoSession
          THEN /\ currentSession' = session
               /\ currentState' = session.state
          ELSE UNCHANGED <<currentState, currentSession>>
    /\ smLast' = called("rehydrate", FALSE)
    /\ UNCHANGED <<sessions, smCreated>>
    /\ SmOnly

\* resumeSession(session, newTabId) with a session of the store
resumeSession(n, newTabId) ==
    /\ sessions[n] # NoSession
    /\ LET resumedSession == [sessions[n] EXCEPT !.tabId = newTabId,
                                                 !.state = "monitoring",
                                                 !.pendingIssueType = "undefined"] IN
       /\ currentSession' = resumedSession
       /\ saveSession(resumedSession)
    /\ currentState' = "monitoring"
    /\ smLast' = called("resumeSession", FALSE)
    /\ UNCHANGED smCreated
    /\ SmOnly

\* switchTab(newTabId)
switchTab(newTabId) ==
    /\ IF currentSession = NoSession \/ currentState = "selecting_element"
       THEN UNCHANGED <<currentSession, sessions>>
       ELSE /\ currentSession' = [currentSession EXCEPT !.tabId = newTabId]
            /\ saveSession(currentSession')
    /\ smLast' = called("switchTab", FALSE)
    /\ UNCHANGED <<currentState, smCreated>>
    /\ SmOnly

\* The service worker is stopped and started again: `new SessionStateMachine()`
\* with nothing in memory; the store stays.
workerRestarts ==
    /\ currentState' = "idle"
    /\ currentSession' = NoSession
    /\ smLast' = [action |-> "none", threw |-> FALSE]
    /\ UNCHANGED <<sessions, smCreated>>
    /\ SmOnly

SmNext ==
    \/ \E tabId \in Tabs : startMonitoring(tabId)
    \/ \E issueType \in IssueTypes : startElementSelection(issueType)
    \/ finishElementSelection
    \/ \E clearData \in BOOLEAN : forceReset(clearData)
    \/ rehydrate
    \/ \E n \in 1 .. MaxSessions, newTabId \in Tabs : resumeSession(n, newTabId)
    \/ \E newTabId \in Tabs : switchTab(newTabId)
    \/ workerRestarts


(***************************************************************************)
(* Specifications                                                          *)
(***************************************************************************)

\* The parts a specification does not exercise stay as constructed.
HttpIdle ==
    /\ hSelf = "i1"
    /\ hPc = "idle"
    /\ hReq = [origin |-> Undefined, method |-> "GET", path |-> <<"health">>]
    /\ hSize = 0
    /\ hChunks = 0
    /\ hDoc = "none"
    /\ hRes = NoRes
    /\ hDestroyed = FALSE
    /\ hSent = <<>>
    /\ hSnapshots = 0

DiscIdle ==
    /\ dWorld = [p \in CandidatePorts |-> "free"]
    /\ dRegistry = <<>>
    /\ dPc = "idle"
    /\ dFailed = FALSE
    /\ dAvailable = 0
    /\ dRegistered = <<>>
    /\ dPending = {}
    /\ dProbes = <<>>
    /\ dVerified = <<>>

FabIdle ==
    /\ now = 0
    /\ lock = NoLock
    /\ regFile = NoFile
    /\ fHost = [k \in FabInst |-> "h1"]
    /\ busy = {}
    /\ gServer = [h \in Hosts |-> "null"]
    /\ gRegistry = [h \in Hosts |-> "null"]
    /\ srv = [k \in FabInst |-> [state |-> "none", port |-> 0]]
    /\ regPort = [k \in FabInst |-> 0]
    /\ hbTimer = [k \in FabInst |-> NoTimer]
    /\ pc = [f \in Frames |-> "idle"]
    /\ tgt = [f \in Frames |-> IF f[1] = "stop" THEN "null" ELSE f[2]]
    /\ buf = [f \in Frames |-> <<>>]
    /\ crashed = [h \in Hosts |-> FALSE]
    /\ fFailed = [k \in FabInst |-> FALSE]
    /\ unregOk = [k \in FabInst |-> FALSE]

RegIdle ==
    /\ rNow = 0
    /\ rLock = "none"
    /\ rFile = Absent
    /\ rPc = [p \in FabInst |-> "idle"]
    /\ rOp = [p \in FabInst |-> "none"]
    /\ rBuf = [p \in FabInst |-> <<>>]
    /\ rSeen = [p \in FabInst |-> <<>>]
    /\ rFd = [p \in FabInst |-> FALSE]
    /\ rReg = [p \in FabInst |-> FALSE]
    /\ rOut = [p \in FabInst |-> NoOut]
    /\ rLog = <<>>
    /\ rTmp = [p \in FabInst |-> FALSE]
    /\ rErr = [p \in FabInst |-> "none"]
    /\ rFaults = 0

SmIdle == SmInit

\* Requests arriving at one HttpServer.
InitHttp == HttpInit /\ DiscIdle /\ FabIdle /\ SendInit /\ PortIdle /\ RegIdle /\ SmIdle
SpecHttp == InitHttp /\ [][HttpNext]_vars

\* discoverInstances calls against a loopback world.
InitDisc == DiscInit /\ HttpIdle /\ FabIdle /\ SendInit /\ PortIdle /\ RegIdle /\ SmIdle
SpecDisc == InitDisc /\ [][DiscNext]_vars

\* Host processes starting, beating, stopping and crashing over one registry.
InitFabric == FabInit /\ HttpIdle /\ DiscIdle /\ SendInit /\ PortIdle /\ RegIdle /\ SmIdle
SpecFabric == InitFabric /\ [][FabNext]_vars

\* The hosts over a registry that holds the record of a dead instance.
InitCrashed == CrashedInit /\ HttpIdle /\ DiscIdle /\ SendInit /\ PortIdle /\ RegIdle /\ SmIdle
SpecCrashed == InitCrashed /\ [][FabNext]_vars

\* One server searching its port.
InitPort == PortInit /\ HttpIdle /\ DiscIdle /\ FabIdle /\ SendInit /\ RegIdle /\ SmIdle
SpecPort == InitPort /\ [][PortNext]_vars

\* Selections and sends on the browser side.
InitSend == SendInit /\ HttpIdle /\ DiscIdle /\ FabIdle /\ PortIdle /\ RegIdle /\ SmIdle
SpecSend == InitSend /\ [][SendNext]_vars

\* Registry objects of two host processes over a registry file of any content.
InitReg == RegInit /\ HttpIdle /\ DiscIdle /\ FabIdle /\ SendInit /\ PortIdle /\ SmIdle
SpecReg == InitReg /\ [][RegNext]_vars

\* The session state machine of the background worker.
InitSession == SmInit /\ HttpIdle /\ DiscIdle /\ FabIdle /\ SendInit /\ PortIdle /\ RegIdle
SpecSession == InitSession /\ [][SmNext]_vars


(***************************************************************************)
(* Claims about the HTTP surface                                           *)
(***************************************************************************)

\* The request in flight is a POST /instance/{id}/send from a permitted origin.
IsSendRequest ==
    /\ hPc # "idle"
    /\ hReq.method = "POST"
    /\ sendMatch(hReq.path)
    /\ isAllowedOrigin(hReq.origin)

\* C5: every POST /instance/{id}/send from a permitted origin whose {id} is not
\* the receiving instance's id is answered 404, whatever its body (valid,
\* malformed, empty or oversized), and the send callback is not invoked.
C5_WrongInstanceIs404 ==
    ( /\ IsSendRequest
      /\ hReq.path[2] # hSelf
      /\ hPc = "responded"
      /\ (hDoc # "none" \/ hDestroyed) )
    => (hRes.status = 404 /\ hSent = <<>>)

\* The origins the spec permits: absent, the literal null, an extension prefix.
C6_SpecPermitted(origin) ==
    \/ ~origin.present
    \/ origin.value = NullLiteral
    \/ startsWith(origin.value, ChromeExtensionPrefix)
    \/ startsWith(origin.value, MozExtensionPrefix)

\* What every request from a forbidden origin gets: 403, the plain error body,
\* no Access-Control-Allow-* header, no registry read, no send callback.
C6_Refused ==
    /\ hPc = "responded"
    /\ hRes.status = 403
    /\ hRes.error = "Forbidden: invalid origin"
    /\ ~hRes.cors
    /\ ~hRes.allowOrigin.present
    /\ hSnapshots = 0
    /\ hSent = <<>>

\* C6 (as amended): a request is processed only if its Origin header is absent
\* or empty, is the literal null, or starts with an allowed extension prefix;
\* every other origin, for every method and path (OPTIONS included), gets the
\* 403 refusal and touches neither the registry nor the send callback.
C6_OriginPolicy ==
    (hPc # "idle" /\ ~(C6_SpecPermitted(hReq.origin) \/ hReq.origin.value = <<>>))
    => C6_Refused

\* C6 (as stated): only an absent Origin, the literal null or an extension
\* prefix is processed; an Origin header with an empty value is none of them.
C6_OriginPolicyAsStated ==
    (hPc # "idle" /\ ~C6_SpecPermitted(hReq.origin)) => C6_Refused

\* An OPTIONS preflight from a web origin was refused.
C6_Witness ==
    /\ hPc = "responded"
    /\ hReq.method = "OPTIONS"
    /\ hReq.origin = Header(<<"h","t","t","p","s",":","/","/","e","v","i","l">>)
    /\ hRes.status = 403

\* The body text is not valid JSON, or its content field is missing, empty
\* or not a string.
C7_BadBody(text) ==
    text \notin {"{\"content\":\"hi\"}", "{\"content\":\"hello\",\"x\":1}"}

\* C7: a send addressed to the receiving instance's own id whose body is not
\* valid JSON, or whose content is missing, empty or not a string, is answered
\* 400 and the send callback is not invoked.
C7_BadBodyIs400 ==
    ( /\ IsSendRequest
      /\ hReq.path[2] = hSelf
      /\ hPc = "responded"
      /\ hDoc # "none"
      /\ C7_BadBody(hDoc) )
    => (hRes.status = 400 /\ hSent = <<>>)

C9_OnlyVerifiedReturned ==
    /\ dRegistered \in {<<>>, dRegistry}
    /\ \A v \in 1 .. Len(dVerified) :
          \E k \in 1 .. Len(dRegistered) :
             /\ dRegistered[k] = dVerified[v]
             /\ k \notin dPending
             /\ dProbes[k].ok
             /\ dProbes[k].instanceId = dVerified[v].id
    /\ \A k \in 1 .. Len(dRegistered) :
          (k \notin dPending /\ ~(dProbes[k].ok /\ dProbes[k].instanceId = dRegistered[k].id))
          => \A v \in 1 .. Len(dVerified) : dVerified[v] # dRegistered[k]

\* A discovery returned one of two records; the other record's port answered,
\* but as a different instance (the port was reused).
C9_Witness ==
    /\ dPc = "done"
    /\ Len(dRegistered) = 2
    /\ Len(dVerified) = 1
    /\ \E k \in 1 .. 2 : dProbes[k].ok /\ dProbes[k].instanceId # dRegistered[k].id

\* C10: when GET /instances on the configured endpoint fails and an instance
\* listens on some port of the reserved range (preferred port .. preferred
\* port + 99), discovery probes that port and takes the instance list from a
\* responding instance.
C10_ScanFindsListener ==
    ( /\ dPc = "done"
      /\ dFailed
      /\ \E port \in ReservedRange : Listener(dWorld, port) \in Inst )
    => dAvailable # 0


(***************************************************************************)
(* Claims about the registry fabric                                        *)
(***************************************************************************)

\* The frame is between a successful acquireLock and its releaseLock.
InModify(f) == pc[f] \in {"read", "write", "release", "releaseErr"}

\* The registry file holds a record with the id of registry object k.
HasRecord(file, k) == \E n \in 1 .. Len(file.instances) : file.instances[n].id = k

\* C1: registry writers are mutually excluded: at most one process at a time
\* is between a successful acquireLock and its releaseLock, whatever the
\* interleaving of the exists/stat/unlink/exclusive-create steps, stale
\* sentinel takeover included.
C1_WritersExcluded ==
    \A f, g \in Frames : InModify(f) /\ InModify(g) => HostOf(f) = HostOf(g)

\* C2: once unregister() of an instance has completed without a lock or I/O
\* failure, no later registry write by that instance puts a record with its
\* id back; in particular the write of a heartbeat tick that was waiting for
\* the lock when unregister cleared the timer does not.
C2_NoWriteBackAfterUnregister ==
    [][ \A k \in FabInst :
          (unregOk[k] /\ pc[BeatFrame(k)] = "write" /\ pc'[BeatFrame(k)] = "release")
             => ~HasRecord(regFile', k) ]_vars

\* C3: in every reachable state of the registry file, whatever registers,
\* heartbeats, unregisters and stale cleanups produced it, no two records
\* have the same id.
C3_NoDuplicateIds == DistinctIds(regFile.instances)

\* C3 witness: two records are in the file and the one registered first
\* carries the later heartbeat: a heartbeat has rewritten it in place.
C3_Witness ==
    /\ Len(regFile.instances) = 2
    /\ regFile.instances[1].lastHeartbeat > regFile.instances[2].lastHeartbeat

\* GET /health as HttpServer k answers it while it listens.
handleHealth(k) == [instanceId |-> k, port |-> srv[k].port]

\* C4: whenever the record of an instance is in the registry, the record's
\* port is the port the instance's listener is bound to, and /health on that
\* port reports the record's port and id. Read for instances whose host
\* process is alive and whose registry calls have not failed.
C4_RecordMatchesListener ==
    \A n \in 1 .. Len(regFile.instances) :
       LET r == regFile.instances[n] IN
       (~crashed[fHost[r.id]] /\ ~fFailed[r.id]) =>
          /\ srv[r.id].state = "listening"
          /\ srv[r.id].port = r.port
          /\ handleHealth(r.id) = [instanceId |-> r.id, port |-> r.port]

(***************************************************************************)
(* Claims about the dispatch of a send                                     *)
(***************************************************************************)

\* C11: every send is POSTed to the target's own port with the target's id
\* in the path, id and port coming from one and the same discovered record,
\* also when the stored selection changes between the user's send action and
\* the dispatch.
C11_IdAndPortOfOneRecord ==
    \A n \in 1 .. Len(sPosts) :
       \E r \in Discovered :
          sPosts[n] = [port |-> r.port, path |-> <<"instance", r.id, "send">>]

(***************************************************************************)
(* Claims about the port search                                            *)
(***************************************************************************)

\* The ports listen() was called with are preferred, preferred + 1, ... in
\* increasing order.
TriedInOrder == \A n \in 1 .. Len(tTried) : tTried[n] = tPreferred + n - 1

\* C12: start(preferred) tries the ports in increasing order from preferred
\* and binds the lowest port of preferred .. preferred + 99 that is not in
\* use, never a port outside the range; when every port of the range is in
\* use it fails after exactly 100 attempts and leaves no listener bound.
C12_LowestFreePortOrFailure ==
    /\ TriedInOrder
    /\ tServer.state = "listening" <=> tPromise = "resolved"
    /\ tPromise = "resolved" =>
          /\ tServer.port \in PortRange(tPreferred) \ tInUse
          /\ \A q \in PortRange(tPreferred) : q < tServer.port => q \in tInUse
          /\ tServer.port = tryPort(tPreferred, MAX_PORT_ATTEMPTS, tInUse)
    /\ tPromise = "rejected" =>
          /\ PortRange(tPreferred) \subseteq tInUse
          /\ Len(tTried) = 100
          /\ tServer.state = "null"
          /\ tryPort(tPreferred, MAX_PORT_ATTEMPTS, tInUse) = 0
    /\ (tPromise = "pending" /\ attemptsExhausted(tAttempts)) =>
          PortRange(tPreferred) \subseteq tInUse

\* C12 witness: the last port of the range was the only free one and is bound.
C12_Witness ==
    /\ tPromise = "resolved"
    /\ tServer.port = tPreferred + 99
    /\ Len(tTried) = 100

(***************************************************************************)
(* Claims about the order of bind, registration and heartbeat              *)
(***************************************************************************)

\* The listener of instance k has bound a port at some time.
HasBound(k) == srv[k].state # "none"

\* Some frame is about to write a record of instance k.
WillWrite(k) ==
    \E f \in Frames : \E n \in 1 .. Len(buf[f]) : buf[f][n].id = k

\* C13: the record of an instance is inserted only after its listener has
\* bound a port, and its heartbeat timer is started only after that insertion
\* succeeded; when binding fails no record of the instance is ever written
\* and no heartbeat of it runs.
C13_BindThenRegisterThenHeartbeat ==
    \A k \in FabInst :
       /\ (HasRecord(regFile, k) \/ WillWrite(k)) => HasBound(k)
       /\ hbTimer[k].set => (HasBound(k) /\ pc[StartFrame(k)] = "done")
       /\ pc[BeatFrame(k)] \notin {"idle", "dead"} => HasBound(k)
       /\ pc[StartFrame(k)] \in MidSync \cup {"sleep"} => ~hbTimer[k].set

\* C13 witness: one instance could not bind any port and its startServer has
\* ended in the catch, while the other is registered with its heartbeat
\* running.
C13_Witness ==
    \E k, j \in FabInst :
       /\ pc[StartFrame(k)] = "failed" /\ ~HasBound(k)
       /\ HasRecord(regFile, j) /\ hbTimer[j].set

(***************************************************************************)
(* Claims about stale records                                              *)
(***************************************************************************)

\* The record list holds a record with the given id.
HasId(instances, id) == \E n \in 1 .. Len(instances) : instances[n].id = id

\* The last heartbeat of the dead instance is older than the stale threshold.
CrashedIsOlder(time) == time - CrashedRecord.lastHeartbeat > STALE_THRESHOLD

\* C14: once the last heartbeat of an instance that has crashed is older than
\* the stale threshold, no snapshot of any process returns its record, the
\* modify of any other process that reads the registry from then on writes a
\* file without it, and the record never reappears in the file afterwards.
C14_CrashedIsPurgedForGood ==
    /\ [](CrashedIsOlder(now) => ~HasId(getAllInstances(regFile, now), CrashedRecord.id))
    /\ [][ /\ \A f \in Frames :
                (CrashedIsOlder(now) /\ pc[f] = "read" /\ pc'[f] = "write")
                   => ~HasId(buf'[f], CrashedRecord.id)
           /\ (CrashedIsOlder(now) /\ ~HasId(regFile.instances, CrashedRecord.id))
                   => ~HasId(regFile'.instances, CrashedRecord.id) ]_vars

\* C15: a live instance that misses one heartbeat is not evicted: while its
\* heartbeat timer runs and its record is no older than two heartbeat
\* intervals (the tick after the missed one is due at exactly that age), the
\* record is returned by every snapshot, and so kept by the cleaning of every
\* modify, which filters the same way at the same time.
C15_OneMissedBeatTolerated ==
    \A n \in 1 .. Len(regFile.instances) :
       LET r == regFile.instances[n] IN
       (hbTimer[r.id].set /\ now - r.lastHeartbeat <= 2 * HEARTBEAT_INTERVAL)
          => HasId(getAllInstances(regFile, now), r.id)

\* C16: on every read, by a snapshot and by the cleaning inside modify (the
\* same filter at the same clock), a record of the registry file is kept
\* exactly when its age now - lastHeartbeat is at most the stale threshold, and
\* dropped exactly when its age is strictly greater.
C16_DroppedExactlyAboveThreshold ==
    \A n \in 1 .. Len(regFile.instances) :
       LET r == regFile.instances[n] IN
       HasId(cleanStaleInstances(regFile.instances, now), r.id)
          <=> (now - r.lastHeartbeat <= STALE_THRESHOLD)

(***************************************************************************)
(* Claims about the registry file                                          *)
(***************************************************************************)

\* C17: a snapshot taken without the lock, while other processes modify the
\* registry or create its file for the first time, returns the list of a file
\* written in full; it never returns the empty list that reading a file
\* opened for writing and not yet written gives.
C17_SnapshotNeverTorn ==
    \A p \in Readers : rOut[p].src # "partial"

\* The records of a list, as a set.
recordSet(instances) == { instances[n] : n \in 1 .. Len(instances) }

\* The last two writes to the file are a register and, at the same clock
\* reading, the unregister of the same instance, whose id was not in the file
\* before.
RegisterThenUnregister ==
    /\ Len(rLog) = 2
    /\ rLog[1].op = "register"
    /\ rLog[2].op = "unregister"
    /\ rLog[1].who = rLog[2].who
    /\ rLog[1].at = rLog[2].at
    /\ ~HasId(rLog[1].before, rLog[1].who)

\* C18 as stated: whatever records of other instances the file held, of
\* whatever ages, register followed immediately by unregister of one instance,
\* with no other write in between, leaves the same set of records as before
\* the registration.
C18_RegisterUnregisterRestores ==
    RegisterThenUnregister
       => recordSet(rLog[2].after) = recordSet(rLog[1].before)

\* C18 as amended: register followed immediately by unregister, with no other
\* write in between, leaves only records that were there before the
\* registration, and among them every record younger than the stale threshold.
C18_RegisterUnregisterKeepsFresh ==
    RegisterThenUnregister
       => /\ recordSet(rLog[2].after) \subseteq recordSet(rLog[1].before)
          /\ \A r \in recordSet(rLog[1].before) :
                (rLog[2].at - r.lastHeartbeat < STALE_THRESHOLD)
                   => r \in recordSet(rLog[2].after)

C18_Witness ==
    /\ RegisterThenUnregister
    /\ rLog[2].after # <<>>
    /\ recordSet(rLog[2].after) # recordSet(rLog[1].before)

\* The ids of a list, as a set.
idSet(instances) == { instances[n].id : n \in 1 .. Len(instances) }

\* The records of a list that belong to other instances than `self`.
othersOf(instances, self) == { r \in recordSet(instances) : r.id # self }

\* The last two writes to the file are heartbeats of one instance.
TwoHeartbeats ==
    /\ Len(rLog) = 2
    /\ rLog[1].op = "heartbeat"
    /\ rLog[2].op = "heartbeat"
    /\ rLog[1].who = rLog[2].who

\* The second heartbeat left the instance's record as the first wrote it, but
\* for lastHeartbeat.
OwnRecordRefreshed ==
    \A r \in recordSet(rLog[1].after) :
       r.id = rLog[1].who
          => { q \in recordSet(rLog[2].after) : q.id = r.id }
                = { [r EXCEPT !.lastHeartbeat = rLog[2].at] }

\* C19 as stated: whatever the file held, two consecutive successful
\* heartbeats of one instance, with no other write in between, leave the same
\* set of record ids, and the second changes no field of any record but the
\* instance's own lastHeartbeat.
C19_HeartbeatsKeepRecords ==
    TwoHeartbeats
       => /\ idSet(rLog[2].after) = idSet(rLog[1].after)
          /\ othersOf(rLog[2].after, rLog[2].who) = othersOf(rLog[1].after, rLog[1].who)
          /\ OwnRecordRefreshed

\* C19 as amended: two consecutive successful heartbeats of one instance, with
\* no other write in between, leave the instance's own record changed in
\* lastHeartbeat only, and of the other records only ones that were there
\* after the first heartbeat, unchanged, among them every one younger than the
\* stale threshold at the second heartbeat.
C19_HeartbeatsKeepFreshRecords ==
    TwoHeartbeats
       => /\ othersOf(rLog[2].after, rLog[2].who)
                \subseteq othersOf(rLog[1].after, rLog[1].who)
          /\ \A r \in othersOf(rLog[1].after, rLog[1].who) :
                (rLog[2].at - r.lastHeartbeat < STALE_THRESHOLD)
                   => r \in recordSet(rLog[2].after)
          /\ OwnRecordRefreshed

C19_Witness ==
    /\ TwoHeartbeats
    /\ rLog[2].at > rLog[1].at
    /\ othersOf(rLog[2].after, rLog[2].who) # {}

\* C20: when the registry file holds text that does not parse, a snapshot
\* returns the empty list, and the next write to the file is the rename of a
\* modify, which puts valid JSON of exactly its modifier applied to the empty
\* list in its place.
C20_CorruptFileReadsEmptyAndIsRewritten ==
    /\ [](\A p \in Readers : rOut[p].src = "corrupt" => rOut[p].instances = <<>>)
    /\ [][ (rFile.state = "corrupt" /\ rFile' # rFile)
              => \E p \in Writers :
                    /\ rPc[p] = "rename"
                    /\ rPc'[p] = "unlock"
                    /\ rFile' = Json(modifierOf(rOp[p], <<>>, p, rNow)) ]_vars

\* A snapshot read the corrupt file, and a modify has replaced it since.
C20_Witness ==
    /\ \E p \in Readers : rOut[p].src = "corrupt"
    /\ rFile.state = "json"
    /\ rFile.instances # <<>>

\* C21: the registry file is written only by modify under the lock: what a
\* reader gets from the file changes only by the rename of a process that
\* holds the lock sentinel, so the lock-free read path of getAllInstances
\* never overwrites a record that another process has registered.
C21_FileWrittenOnlyUnderLock ==
    [][ readRegistryUnsafe(rFile') # readRegistryUnsafe(rFile)
           => \E p \in Writers :
                 /\ rLock = p
                 /\ rPc[p] = "rename"
                 /\ rPc'[p] = "unlock" ]_vars

(***************************************************************************)
(* Claims about writes, heartbeats and the lock of the registry            *)
(***************************************************************************)

\* The records of a list that carry the id.
recordsOfId(instances, id) == { r \in recordSet(instances) : r.id = id }

\* C22: a registry write of a process never changes the record of another
\* instance: the write neither creates such a record nor changes its
\* lastHeartbeat or port, and it removes such a record only when it is stale.
C22_WriteLeavesOtherRecords ==
    [][ \A f \in Frames :
          (pc[f] = "write" /\ pc'[f] = "release")
             => \A id \in FabInst \ {tgt[f]} :
                   /\ recordsOfId(regFile'.instances, id)
                         \subseteq recordsOfId(regFile.instances, id)
                   /\ \A r \in recordsOfId(regFile.instances, id) :
                         r \in recordSet(regFile'.instances)
                            \/ now - r.lastHeartbeat >= STALE_THRESHOLD ]_vars

\* How many records of a list carry the id.
countOfId(instances, id) ==
    Cardinality({ n \in 1 .. Len(instances) : instances[n].id = id })

\* C23: when a heartbeat of instance X has written the registry, the file
\* holds exactly one record with X's id, with the port X's listener is bound
\* to and with the time of the heartbeat as lastHeartbeat, whether or not a
\* record of X was in the file the heartbeat read.
C23_HeartbeatLeavesOneCurrentRecord ==
    [][ \A k \in FabInst :
          /\ (pc[BeatFrame(k)] = "read" /\ pc'[BeatFrame(k)] = "write")
                => /\ countOfId(buf'[BeatFrame(k)], k) = 1
                   /\ \A r \in recordsOfId(buf'[BeatFrame(k)], k) :
                         r.lastHeartbeat = now
          /\ (pc[BeatFrame(k)] = "write" /\ pc'[BeatFrame(k)] = "release")
                => /\ countOfId(regFile'.instances, k) = 1
                   /\ \A r \in recordsOfId(regFile'.instances, k) :
                         /\ srv[k].state = "listening"
                         /\ r.port = srv[k].port ]_vars

\* The positions of a frame inside acquireLock.
InAcquireLock == {"stat", "unlink", "create", "sleep"}

\* C24: acquireLock always ends in one of two ways: the frame holds the lock
\* sentinel it created, or, after LOCK_MAX_RETRIES attempts that found the
\* sentinel of another, it fails with the lock-timeout error.
C24_AcquireEndsHoldingOrTimedOut ==
    [][ \A f \in Frames :
          (pc[f] \in InAcquireLock /\ pc'[f] \notin InAcquireLock \cup {"dead"})
             => \/ pc'[f] = "read" /\ lock'.by = f
                \/ /\ pc[f] = "sleep"
                   /\ now' >= now + (LOCK_MAX_RETRIES - 1) * LOCK_RETRY_DELAY ]_vars

requestSettles ==
    \/ getInstances
    \/ scanPorts
    \/ getInstancesScanned
    \/ \E k \in 1 .. MaxRecords + 1 : verifyInstance(k)
    \/ returnVerified

\* C26: every outbound request of discoverInstances is bounded by a timeout,
\* so that the call returns even when an endpoint accepts the connection and
\* never answers: while the call has not returned, the request, scan or probe
\* it awaits can settle.
C26_EveryRequestSettles ==
    dPc \notin {"idle", "done"} => ENABLED requestSettles

(***************************************************************************)
(* Claims about failing heartbeats and the release of the lock             *)
(***************************************************************************)

\* The step that ends a failed tick of k's heartbeat: acquireLock threw (the
\* retries ran out, or a system call failed) or the write of the registry
\* failed and the lock was released.
FailedTickEnds(k) ==
    /\ pc[BeatFrame(k)] \in InAcquireLock \cup {"releaseErr"}
    /\ pc'[BeatFrame(k)] = "idle"

\* C27: a failed heartbeat tick raises nothing to the host (the host's server,
\* registry object and the other callbacks are as they were), leaves the
\* interval timer as it was, and no step of it changes the records of the
\* registry file; the callback is idle again, so that the next tick of a
\* running timer calls updateHeartbeat again; and a tick whose modifyRegistry
\* succeeds leaves exactly one record of the instance in the file, the one
\* its modifier made, whether the record was there before or not.
C27_FailedTickIsSwallowed ==
    [][ \A k \in FabInst :
          /\ FailedTickEnds(k)
                => /\ hbTimer' = hbTimer
                   /\ gServer' = gServer /\ gRegistry' = gRegistry /\ srv' = srv
                   /\ crashed' = crashed
                   /\ \A f \in Frames \ {BeatFrame(k)} : pc'[f] = pc[f]
                   /\ regFile' = regFile
          /\ (pc'[BeatFrame(k)] # pc[BeatFrame(k)]
                /\ ~(pc[BeatFrame(k)] = "write" /\ pc'[BeatFrame(k)] = "release"))
                => regFile'.instances = regFile.instances
          /\ (pc[BeatFrame(k)] = "read" /\ pc'[BeatFrame(k)] = "write")
                => /\ countOfId(buf'[BeatFrame(k)], k) = 1
                   /\ \A r \in recordsOfId(buf'[BeatFrame(k)], k) :
                         r.lastHeartbeat = now /\ r.port = regPort[k]
          /\ (pc[BeatFrame(k)] = "write" /\ pc'[BeatFrame(k)] = "release")
                => /\ regFile'.instances = buf[BeatFrame(k)]
                   /\ countOfId(regFile'.instances, k) = 1 ]_vars

\* A heartbeat whose write failed has returned with its timer still armed, and
\* the next tick has put the record of the instance, purged meanwhile, back.
C27_Witness ==
    /\ fFailed["i1"]
    /\ hbTimer["i1"].set
    /\ pc[BeatFrame("i1")] = "idle"
    /\ pc[StartFrame("i1")] = "done"
    /\ countOfId(regFile.instances, "i1") = 1
    /\ \E n \in 1 .. Len(regFile.instances) :
          regFile.instances[n].id = "i1" /\ regFile.instances[n].lastHeartbeat = 2 * HEARTBEAT_INTERVAL

\* C28: releaseLock removes only a sentinel that the releasing process itself
\* created: a release that finds the sentinel of another process (which took
\* the lock over as stale) leaves it in place.
C28_ReleaseRemovesOwnSentinelOnly ==
    [][ \A f \in Frames :
          (pc[f] \in {"release", "releaseErr"} /\ pc'[f] \notin {"release", "releaseErr", "dead"}
             /\ lock.by # NoLock.by /\ lock.by # f)
             => lock' = lock ]_vars

(***************************************************************************)
(* Claims about the host's start and stop commands                         *)
(***************************************************************************)

\* The registry objects and servers that host h has built.
BuiltBy(h) == { k \in FabInst : fHost[k] = h }

\* stopServer of host h has completed and no startServer has run since: the
\* globals `server` and `registry` are null and no stop is under way.
Stopped(h) ==
    /\ ~crashed[h]
    /\ pc[StopFrame(h)] = "idle"
    /\ gServer[h] = "null"
    /\ gRegistry[h] = "null"

\* C29: however startServer and stopServer overlap in one host, the host has
\* at most one bound listener and at most one registry identity with a
\* running heartbeat, and once stopServer has completed the host has no
\* listener, no heartbeat timer and, unless a registry call of its failed, no
\* record in the registry.
C29_StartStopLeaveOneOrNone ==
    \A h \in StopHosts :
       /\ Cardinality({ k \in BuiltBy(h) : srv[k].state = "listening" }) <= 1
       /\ Cardinality({ k \in BuiltBy(h) : hbTimer[k].set }) <= 1
       /\ Stopped(h)
             => \A k \in BuiltBy(h) :
                   /\ srv[k].state # "listening"
                   /\ ~hbTimer[k].set
                   /\ ~fFailed[k] => ~HasId(regFile.instances, k)

(***************************************************************************)
(* Claims about the session state machine                                  *)
(***************************************************************************)

TransitionMethods == { t.action : t \in VALID_TRANSITIONS }

\* The states VALID_TRANSITIONS allows the method from.
AllowedFrom(action) ==
    UNION { t.from : t \in { u \in VALID_TRANSITIONS : u.action = action } }

\* C30: after any sequence of operations of the SessionStateMachine its state
\* is 'idle' exactly when it holds no current session, and otherwise the
\* state field of the current session equals the state of the machine; and a
\* transition method that is called in a state VALID_TRANSITIONS does not
\* allow it from throws and leaves the state, the session and the store
\* as they were.
C30_StateMatchesSession ==
    /\ [](/\ (currentState = "idle") <=> (currentSession = NoSession)
          /\ currentSession # NoSession => currentSession.state = currentState)
    /\ [][ \A a \in TransitionMethods :
             (smLast' # smLast /\ smLast'.action = a /\ currentState \notin AllowedFrom(a))
                => /\ smLast'.threw
                   /\ currentState' = currentState
                   /\ currentSession' = currentSession
                   /\ sessions' = sessions ]_vars

\* finishElementSelection was called while the second session was monitoring
\* on the tab it had been switched to, and threw; an older session is stored
\* as idle.
C30_Witness ==
    /\ smLast = [action |-> "finishElementSelection", threw |-> TRUE]
    /\ currentState = "monitoring"
    /\ currentSession.sessionId = 2
    /\ currentSession.tabId = 2
    /\ sessions[1].state = "idle"

====
